---- MODULE Spec2Model ----
(***************************************************************************)
(* Verification model of                                                   *)
(*  - the kd-tree midpoint builder (fastlib/u/garryb/nbr/kdtree.h,         *)
(*    KdTreeMidpointBuilder), and                                          *)
(*  - the N-body statistics classes (nbody_simulator_tripletree.h:         *)
(*    Postponed, Delta, Result, Global, Summary, Statistic) with the       *)
(*    traversal that calls them.                                           *)
(*                                                                         *)
(* Indices are 0-based as in the source.  Points are two-dimensional.      *)
(* Coordinates are drawn from the even integers 0, 2, .., 2*MaxCoord so    *)
(* that the midpoint of any bound over input points is itself an integer   *)
(* and (lo + hi) / 2 is exact.                                             *)
(* The recursion of Build_ is an explicit call stack of frames; the        *)
(* cursor loop of Partition_ is modelled one loop iteration per step.      *)
(* Potentials and counters of the statistics are integers.  Spec and       *)
(* SpecTwoBuilds run the builder, SpecStatistics the callers of the        *)
(* statistics classes in any order, SpecTraversal one traversal.           *)
(*                                                                         *)
(* Two more parts follow:                                                  *)
(*  - the hierarchical SVM trainer HCY (opt_hcy.h): Train, the SMO loop    *)
(*    of TreeDescentRecursion_ and SplitNodePropagate_.  Kernel values and *)
(*    gradients are not modelled: what WorkingSetSelection_ and            *)
(*    TestShrink_ answer and the Newton step are inputs of a pass.  The    *)
(*    alphas are exact fractions.  SpecHCY is one call of Train.           *)
(*  - the assembly of the gradient vector in MoGL2E (mog_l2e.cpp).         *)
(*    SpecMoG is one call of RegularizationTerm_ or GoodnessOfFitTerm_.    *)
(***************************************************************************)
EXTENDS Integers, Sequences, FiniteSets, TLC

\* ------------------------------------------------------------- bounds ---
MaxN == 3
MaxCoord == 1
MaxLeafSize == 1
MaxOps == 3
MaxIter == 3
MaxRot == 1
MaxPos == 1
MaxData == 10
MaxK == 3
MaxD == 3

\* ------------------------------------------------------------ helpers ---
Unset == 0 - 1

Coords == {2 * k : k \in 0..MaxCoord}
Dims == {0, 1}
PointSet == [Dims -> Coords]

Min2(a, b) == IF a <= b THEN a ELSE b
Max2(a, b) == IF a >= b THEN a ELSE b

\* Bound::Init(dim): every dimension is the empty interval.
EmptyRange == [lo |-> 2 * MaxCoord + 1, hi |-> 0 - 1]
BoundInit(dim) == [d \in 0..(dim - 1) |-> EmptyRange]

\* Bound |= Vector: per-dimension hull with the point.
BoundUnion(b, v) ==
  [d \in DOMAIN b |-> [lo |-> Min2(b[d].lo, v[d]), hi |-> Max2(b[d].hi, v[d])]]

\* Range::width() and Range::mid().
Width(r) == r.hi - r.lo
Mid(r) == (r.lo + r.hi) \div 2

\* Bound containment test.
BoundContains(b, v) == \A d \in DOMAIN b : b[d].lo <= v[d] /\ v[d] <= b[d].hi

\* ------------------------------------------------------------- state ----
VARIABLES
  points_,      \* CacheArray<Vector> points_ : [0..N-1 -> point]
  point_infos_, \* CacheArray<PointInfo> point_infos_ : [0..N-1 -> info]
  nodes_,       \* CacheArray<Node> nodes_ : [0..k-1 -> node]
  leaf_size_,   \* index_t leaf_size_
  leaf_size_param, \* the "leaf_size" entry of the datanode handed to InitBuild
  dim_,         \* index_t dim_
  stack,        \* call stack of Build_(node_i) frames, top is the last
  pc,           \* position of the driver: InitBuild, Build, Build_, done, abort
  accessed,     \* point indices passed to StartRead/StartWrite by the running
                \* InitBuild or Partition_ call
  points_in,    \* history: the point array as handed to InitBuild
  first_build   \* history: <<>> or <<result of the first build>>

\* State of the N-body statistics (nbody_simulator_tripletree.h).
VARIABLES
  stats,           \* per tree node: NbodySimulatorStatistic (postponed_, summary_)
  results,         \* NbodySimulatorResult: one entry per point in each vector
  relative_error_, \* NbodySimulatorGlobal::relative_error_
  phase,           \* position of the caller of the statistics classes
  ops,             \* number of calls made so far
  work,            \* traversal: stack of node pairs still to be visited
  potential_,      \* traversal: value of the potential for each point pair
  hist             \* history: what the claims compare against

nbvars == <<stats, results, relative_error_, phase, ops, work, potential_, hist>>

\* State of the hierarchical SVM trainer (opt_hcy.h, class HCY).
VARIABLES
  tree_pos_,          \* TreeType* tree_pos_ : [node id -> node], children 2n, 2n+1
  tree_neg_,          \* TreeType* tree_neg_
  n_data_pos_,        \* index_t n_data_pos_
  n_data_neg_,        \* index_t n_data_neg_
  n_iter_,            \* index_t n_iter_
  active_set_,        \* ArrayList<index_t> active_set_ : [0..n-1 -> old index]
  alpha_,             \* Vector alpha_ : [0..n-1 -> rational]
  alpha_status_,      \* Vector alpha_status_
  y_,                 \* ArrayList<int> y_
  n_used_alpha_,      \* index_t n_used_alpha_
  n_active_,          \* index_t n_active_
  ct_iter_,           \* index_t ct_iter_
  ct_shrinking_,      \* index_t ct_shrinking_
  unshrinked_,        \* bool unshrinked_
  b_end_of_recursion_, \* bool b_end_of_recursion_
  stop_condition,     \* local stop_condition of TreeDescentRecursion_
  node_pool_pos,      \* ArrayList<TreeType*> node_pool_pos : sequence of node ids
  node_pool_neg,      \* ArrayList<TreeType*> node_pool_neg
  args,               \* the arguments of the running TreeDescentRecursion_ call
  new_args,           \* its locals new_n_samples_for_opt, new_n_splitted_node_pos, ..
  new_from_old,       \* local new_from_old of TreeDescentRecursion_
  prop,               \* SplitNodePropagate_ in progress: which pool, loop index k
  hpc,                \* position of the trainer
  hcyhist             \* history: what the claims compare against

hcyvars == <<tree_pos_, tree_neg_, n_data_pos_, n_data_neg_, n_iter_, active_set_,
             alpha_, alpha_status_, y_, n_used_alpha_, n_active_, ct_iter_,
             ct_shrinking_, unshrinked_, b_end_of_recursion_, stop_condition,
             node_pool_pos, node_pool_neg, args, new_args, new_from_old, prop,
             hpc, hcyhist>>

\* State of the gradient assembly of MoGL2E (mog_l2e.cpp).
VARIABLES
  gaussians,   \* size_t gaussians
  dimension,   \* size_t dimension
  tmp_g,       \* tmp_g_reg / tmp_g_fit: number of writes per index
  gpc          \* position of the assembly: which term, which loop, k and i

mogvars == <<gaussians, dimension, tmp_g, gpc>>

restvars == <<hcyvars, mogvars>>

vars == <<points_, point_infos_, nodes_, leaf_size_, leaf_size_param, dim_,
          stack, pc, accessed, points_in, first_build, nbvars, restvars>>

\* The trainer is not in use while the builder or the statistics run.
HcyIdle ==
  /\ tree_pos_ = <<>>
  /\ tree_neg_ = <<>>
  /\ n_data_pos_ = 0
  /\ n_data_neg_ = 0
  /\ n_iter_ = 0
  /\ active_set_ = <<>>
  /\ alpha_ = <<>>
  /\ alpha_status_ = <<>>
  /\ y_ = <<>>
  /\ n_used_alpha_ = 0
  /\ n_active_ = 0
  /\ ct_iter_ = 0
  /\ ct_shrinking_ = 0
  /\ unshrinked_ = FALSE
  /\ b_end_of_recursion_ = FALSE
  /\ stop_condition = 0
  /\ node_pool_pos = <<>>
  /\ node_pool_neg = <<>>
  /\ args = <<>>
  /\ new_args = <<>>
  /\ new_from_old = <<>>
  /\ prop = <<>>
  /\ hpc = "none"
  /\ hcyhist = <<>>

\* The gradient assembly is not in use either.
MogIdle ==
  /\ gaussians = 0
  /\ dimension = 0
  /\ tmp_g = <<>>
  /\ gpc = <<>>

RestIdle == HcyIdle /\ MogIdle

\* The statistics classes are not in use while the kd-tree builder runs.
NbIdle ==
  /\ stats = <<>>
  /\ results = <<>>
  /\ relative_error_ = 0
  /\ phase = "none"
  /\ ops = 0
  /\ work = <<>>
  /\ potential_ = <<>>
  /\ hist = <<>>

N == Cardinality(DOMAIN points_)

\* Node as left by CacheArrayAllocator::Alloc / AddBack, before Init.
NewNode ==
  [begin |-> Unset, count |-> Unset, bound |-> <<>>,
   child0 |-> Unset, child1 |-> Unset, is_leaf |-> FALSE,
   stat |-> [inits |-> 0, acc |-> 0, posts |-> 0]]

NodeEnd(n) == n.begin + n.count

\* Frame of Build_(node_i) at its entry; the local `leaf` is declared
\* without an initialiser.
NewFrame(node_i) ==
  [node_i |-> node_i, pc |-> "start", leaf |-> "uninit",
   left_i |-> Unset, right_i |-> Unset,
   split_dim |-> Unset, split_val |-> Unset,
   left |-> Unset, right |-> Unset]

Top == stack[Len(stack)]
SetTop(f) == [stack EXCEPT ![Len(stack)] = f]

Init ==
  /\ \E n \in 0..MaxN : points_ \in [0..(n - 1) -> PointSet]
  /\ point_infos_ = [i \in DOMAIN points_ |-> i]
  /\ nodes_ = <<>>
  /\ leaf_size_ = Unset
  /\ leaf_size_param \in 1..MaxLeafSize
  /\ dim_ = Unset
  /\ stack = <<>>
  /\ pc = "InitBuild"
  /\ accessed = {}
  /\ points_in = points_
  /\ first_build = <<>>
  /\ NbIdle
  /\ RestIdle


\* ------------------------------------------------- pure parts of Build_ --
\* FindBoundingBox_(first, count, bound): union of points first..first+count-1
\* into bound, in index order.
RECURSIVE FindBoundingBox_(_, _, _, _)
FindBoundingBox_(pts, first, count, bound) ==
  IF count <= 0 THEN bound
  ELSE FindBoundingBox_(pts, first + 1, count - 1, BoundUnion(bound, pts[first]))

\* The "short loop to find widest dimension" of Build_, from dimension d on,
\* with the running (split_dim, max_width).
RECURSIVE WidestFrom(_, _, _, _, _)
WidestFrom(bound, dim, d, split_dim, max_width) ==
  IF d >= dim THEN [split_dim |-> split_dim, max_width |-> max_width]
  ELSE IF Width(bound[d]) > max_width
       THEN WidestFrom(bound, dim, d + 1, d, Width(bound[d]))
       ELSE WidestFrom(bound, dim, d + 1, split_dim, max_width)

\* Variant: `>=` in the comparison, so the last of equally wide dimensions wins.
RECURSIVE WidestFromGe(_, _, _, _, _)
WidestFromGe(bound, dim, d, split_dim, max_width) ==
  IF d >= dim THEN [split_dim |-> split_dim, max_width |-> max_width]
  ELSE IF Width(bound[d]) >= max_width
       THEN WidestFromGe(bound, dim, d + 1, d, Width(bound[d]))
       ELSE WidestFromGe(bound, dim, d + 1, split_dim, max_width)

WidestTiesHigh(bound, dim) == WidestFromGe(bound, dim, 0, Unset, 0 - 1)

\* Variant: max_width is updated but split_dim is left at the first dimension.
WidestFirstDim(bound, dim) ==
  [split_dim |-> 0, max_width |-> WidestFrom(bound, dim, 0, Unset, 0 - 1).max_width]

Widest(bound, dim) == WidestFrom(bound, dim, 0, Unset, 0 - 1)

\* Variant: the zero-width test is missing.
ShouldSplitNoWidth(node, leaf_size, w) == node.count > leaf_size

\* Variant: max_width is compared with its initial value -1 instead of 0.
ShouldSplitSentinel(node, leaf_size, w) ==
  node.count > leaf_size /\ w.max_width # 0 - 1

\* The two nested tests of Build_ that lead to a split: more points than
\* leaf_size_ and a widest dimension of non-zero width.
ShouldSplit(node, leaf_size, w) ==
  node.count > leaf_size /\ w.max_width # 0

\* The test that ends the left cursor loop of Partition_.
LeftStops(pts, f) ==
  f.left > f.right \/ pts[f.left][f.split_dim] >= f.split_val

\* The test that ends the right cursor loop of Partition_.
RightStops(pts, f) ==
  f.left > f.right \/ pts[f.right][f.split_dim] < f.split_val

\* Variant: the second element is overwritten by itself, so one value is
\* duplicated and the other lost.
SwapAtCopies(arr, i, j) == [arr EXCEPT ![i] = arr[j]]

\* Vector::SwapValues / CacheArray::Swap on two indices.
SwapAt(arr, i, j) == [arr EXCEPT ![i] = arr[j], ![j] = arr[i]]

\* ------------------------------------------------------------ actions ---
\* InitBuild, up to the call of Build: reads the first point for dim_ and
\* takes leaf_size from the parameters.  There is no test for an empty array.
InitBuild ==
  /\ pc = "InitBuild"
  /\ accessed' = {0}
  /\ IF 0 \in DOMAIN points_
       THEN dim_' = Cardinality(DOMAIN points_[0])
       ELSE dim_' \in 1..Cardinality(Dims)
  /\ leaf_size_' = leaf_size_param
  /\ pc' = "Build"
  /\ UNCHANGED <<points_, point_infos_, nodes_, leaf_size_param, stack,
                 points_in, first_build>>
  /\ UNCHANGED <<nbvars, restvars>>

\* Build: create the root, give it the whole range and its bounding box,
\* and call Build_(0).
Build ==
  /\ pc = "Build"
  /\ nodes_' = (0 :> [NewNode EXCEPT
                       !.begin = 0, !.count = N,
                       !.bound = FindBoundingBox_(points_, 0, N, BoundInit(dim_))])
  /\ stack' = <<NewFrame(0)>>
  /\ pc' = "Build_"
  /\ UNCHANGED <<points_, point_infos_, leaf_size_, leaf_size_param, dim_, accessed, points_in,
                 first_build>>
  /\ UNCHANGED <<nbvars, restvars>>

\* Build_(node_i) from its entry to the call of Partition_ (split) or to the
\* test of `leaf` (no split).
Build_Enter ==
  /\ pc = "Build_" /\ stack # <<>> /\ Top.pc = "start"
  /\ LET f == Top
         node == nodes_[f.node_i]
         w == Widest(node.bound, dim_)
         k == Cardinality(DOMAIN nodes_)
         inited == [nodes_ EXCEPT ![f.node_i].stat.inits = @ + 1]
     IN IF ShouldSplit(node, leaf_size_, w)
        THEN /\ nodes_' = inited @@
                          (k :> [NewNode EXCEPT !.bound = BoundInit(dim_)]) @@
                          ((k + 1) :> [NewNode EXCEPT !.bound = BoundInit(dim_)])
             /\ stack' = SetTop([f EXCEPT
                           !.pc = "part_left",
                           !.split_dim = w.split_dim,
                           !.split_val = Mid(node.bound[w.split_dim]),
                           !.left_i = k, !.right_i = k + 1,
                           !.left = node.begin,
                           !.right = node.begin + node.count - 1])
             /\ accessed' = {}
        ELSE /\ nodes_' = inited
             /\ stack' = SetTop([f EXCEPT !.pc = "leafcheck"])
             /\ UNCHANGED accessed
  /\ UNCHANGED <<points_, point_infos_, leaf_size_, leaf_size_param, dim_, pc, points_in,
                 first_build>>
  /\ UNCHANGED <<nbvars, restvars>>

\* One iteration of the left cursor loop of Partition_.
PartitionLeft ==
  /\ pc = "Build_" /\ stack # <<>> /\ Top.pc = "part_left"
  /\ LET f == Top
     IN /\ accessed' = accessed \cup {f.left}
        /\ IF LeftStops(points_, f)
           THEN /\ stack' = SetTop([f EXCEPT !.pc = "part_right"])
                /\ UNCHANGED nodes_
           ELSE /\ nodes_' = [nodes_ EXCEPT ![f.left_i].bound =
                                 BoundUnion(@, points_[f.left])]
                /\ stack' = SetTop([f EXCEPT !.left = @ + 1])
  /\ UNCHANGED <<points_, point_infos_, leaf_size_, leaf_size_param, dim_, pc, points_in,
                 first_build>>
  /\ UNCHANGED <<nbvars, restvars>>

\* One iteration of the right cursor loop of Partition_.
PartitionRight ==
  /\ pc = "Build_" /\ stack # <<>> /\ Top.pc = "part_right"
  /\ LET f == Top
     IN /\ accessed' = accessed \cup {f.right}
        /\ IF RightStops(points_, f)
           THEN /\ stack' = SetTop([f EXCEPT !.pc = "part_check"])
                /\ UNCHANGED nodes_
           ELSE /\ nodes_' = [nodes_ EXCEPT ![f.right_i].bound =
                                 BoundUnion(@, points_[f.right])]
                /\ stack' = SetTop([f EXCEPT !.right = @ - 1])
  /\ UNCHANGED <<points_, point_infos_, leaf_size_, leaf_size_param, dim_, pc, points_in,
                 first_build>>
  /\ UNCHANGED <<nbvars, restvars>>

\* Variant: the swapped point is not added to the right bound.
SwapStepNoRightUnion(pts, infos, nds, f) ==
  LET pts2 == SwapAt(pts, f.left, f.right)
  IN [points |-> pts2,
      infos |-> SwapAt(infos, f.left, f.right),
      nodes |-> [nds EXCEPT
                   ![f.left_i].bound = BoundUnion(@, pts2[f.left])]]

\* Variant: the points are swapped but their infos are not.
SwapStepNoInfo(pts, infos, nds, f) ==
  LET pts2 == SwapAt(pts, f.left, f.right)
  IN [points |-> pts2,
      infos |-> infos,
      nodes |-> [nds EXCEPT
                   ![f.left_i].bound = BoundUnion(@, pts2[f.left]),
                   ![f.right_i].bound = BoundUnion(@, pts2[f.right])]]

\* Variant: the infos are swapped but the points stay where they are.
SwapStepNoPoints(pts, infos, nds, f) ==
  [points |-> pts,
   infos |-> SwapAt(infos, f.left, f.right),
   nodes |-> [nds EXCEPT
                ![f.left_i].bound = BoundUnion(@, pts[f.left]),
                ![f.right_i].bound = BoundUnion(@, pts[f.right])]]

\* Variant: the child bounds are updated but nothing is swapped.
SwapStepBoundsOnly(pts, infos, nds, f) ==
  [points |-> pts,
   infos |-> infos,
   nodes |-> [nds EXCEPT
                ![f.left_i].bound = BoundUnion(@, pts[f.right]),
                ![f.right_i].bound = BoundUnion(@, pts[f.left])]]

\* Variant: the child bounds receive the two points as they lay before the
\* swap.
SwapStepUnionBeforeSwap(pts, infos, nds, f) ==
  [points |-> SwapAt(pts, f.left, f.right),
   infos |-> SwapAt(infos, f.left, f.right),
   nodes |-> [nds EXCEPT
                ![f.left_i].bound = BoundUnion(@, pts[f.left]),
                ![f.right_i].bound = BoundUnion(@, pts[f.right])]]

\* The points, infos and child bounds after the swap step of Partition_ at
\* cursors (left, right).
SwapStep(pts, infos, nds, f) ==
  LET pts2 == SwapAt(pts, f.left, f.right)
  IN [points |-> pts2,
      infos |-> SwapAt(infos, f.left, f.right),
      nodes |-> [nds EXCEPT
                   ![f.left_i].bound = BoundUnion(@, pts2[f.left]),
                   ![f.right_i].bound = BoundUnion(@, pts2[f.right])]]

\* The tail of the outer loop of Partition_: leave when the cursors have
\* crossed, otherwise swap the two points and their infos and go on.
PartitionCheck ==
  /\ pc = "Build_" /\ stack # <<>> /\ Top.pc = "part_check"
  /\ LET f == Top
     IN IF f.left > f.right
        THEN /\ stack' = SetTop([f EXCEPT !.pc = "split"])
             /\ UNCHANGED <<points_, point_infos_, nodes_>>
        ELSE LET s == SwapStep(points_, point_infos_, nodes_, f)
             IN /\ points_' = s.points
                /\ point_infos_' = s.infos
                /\ nodes_' = s.nodes
                /\ stack' = SetTop([f EXCEPT !.pc = "part_left",
                                             !.right = @ - 1])
  /\ UNCHANGED <<leaf_size_, leaf_size_param, dim_, pc, accessed, points_in,
                 first_build>>
  /\ UNCHANGED <<nbvars, restvars>>

\* Variant: the right child starts one past the split index.
ChildRangesGap(node, split_col) ==
  [left |-> [begin |-> node.begin, count |-> split_col - node.begin],
   right |-> [begin |-> split_col + 1, count |-> NodeEnd(node) - split_col]]

\* The ranges given to the two children from the index Partition_ returned.
ChildRanges(node, split_col) ==
  [left |-> [begin |-> node.begin, count |-> split_col - node.begin],
   right |-> [begin |-> split_col, count |-> NodeEnd(node) - split_col]]

\* Build_ after Partition_ returned: Init of both children, the assertion
\* that neither is empty, and the call Build_(left_i).
Build_Split ==
  /\ pc = "Build_" /\ stack # <<>> /\ Top.pc = "split"
  /\ LET f == Top
         r == ChildRanges(nodes_[f.node_i], f.left)
     IN /\ nodes_' = [nodes_ EXCEPT
                        ![f.left_i].begin = r.left.begin,
                        ![f.left_i].count = r.left.count,
                        ![f.right_i].begin = r.right.begin,
                        ![f.right_i].count = r.right.count]
        /\ IF r.left.count # 0 /\ r.right.count # 0
           THEN /\ stack' = Append(SetTop([f EXCEPT !.pc = "in_left"]),
                                   NewFrame(f.left_i))
                /\ UNCHANGED pc
           ELSE /\ pc' = "abort"
                /\ UNCHANGED stack
  /\ UNCHANGED <<points_, point_infos_, leaf_size_, leaf_size_param, dim_, accessed, points_in,
                 first_build>>
  /\ UNCHANGED <<nbvars, restvars>>

\* What a read of the local `leaf` can yield: false after the split branch
\* assigned it, any value when nothing was assigned.
LeafValues(f) == IF f.leaf = "uninit" THEN BOOLEAN ELSE {FALSE}

\* The stack after the top frame returned to its caller: a caller that was
\* in Build_(left_i) goes on to call Build_(right_i), a caller that was in
\* Build_(right_i) goes on to set_child.
ReturnTo(stk) ==
  LET rest == SubSeq(stk, 1, Len(stk) - 1)
  IN IF rest = <<>> THEN rest
     ELSE IF rest[Len(rest)].pc = "in_left"
          THEN Append([rest EXCEPT ![Len(rest)].pc = "in_right"],
                      NewFrame(rest[Len(rest)].right_i))
          ELSE [rest EXCEPT ![Len(rest)].pc = "after_right"]

\* Build_ after both calls returned: set_child twice, the statistic from the
\* children, leaf = false, the `if (leaf)` that is then not taken, and the
\* return.
Build_Combine ==
  /\ pc = "Build_" /\ stack # <<>> /\ Top.pc = "after_right"
  /\ LET f == Top
     IN /\ nodes_' = [nodes_ EXCEPT
                        ![f.node_i].child0 = f.left_i,
                        ![f.node_i].child1 = f.right_i,
                        ![f.node_i].stat =
                           [@ EXCEPT !.acc = @ + nodes_[f.left_i].stat.acc
                                               + nodes_[f.right_i].stat.acc,
                                     !.posts = @ + 1]]
        /\ LeafValues([f EXCEPT !.leaf = "false"]) = {FALSE}
        /\ stack' = ReturnTo(stack)
  /\ UNCHANGED <<points_, point_infos_, leaf_size_, leaf_size_param, dim_, pc, accessed,
                 points_in, first_build>>
  /\ UNCHANGED <<nbvars, restvars>>

\* The end of Build_ on a node that was not split: `if (leaf)` marks the
\* node as a leaf and builds its statistic from its own points; then the
\* call returns.
Build_LeafCheck ==
  /\ pc = "Build_" /\ stack # <<>> /\ Top.pc = "leafcheck"
  /\ LET f == Top
     IN \E leaf \in LeafValues(f) :
          nodes_' = IF leaf
                    THEN [nodes_ EXCEPT
                            ![f.node_i].is_leaf = TRUE,
                            ![f.node_i].stat =
                               [@ EXCEPT !.acc = @ + nodes_[f.node_i].count,
                                         !.posts = @ + 1]]
                    ELSE nodes_
  /\ stack' = ReturnTo(stack)
  /\ UNCHANGED <<points_, point_infos_, leaf_size_, leaf_size_param, dim_, pc, accessed,
                 points_in, first_build>>
  /\ UNCHANGED <<nbvars, restvars>>

\* InitBuild after Build returned: the three Flush calls.
Flush ==
  /\ pc = "Build_" /\ stack = <<>>
  /\ pc' = "done"
  /\ UNCHANGED <<points_, point_infos_, nodes_, leaf_size_, leaf_size_param, dim_, stack,
                 accessed, points_in, first_build>>
  /\ UNCHANGED <<nbvars, restvars>>

Next ==
  \/ InitBuild
  \/ Build
  \/ Build_Enter
  \/ PartitionLeft
  \/ PartitionRight
  \/ PartitionCheck
  \/ Build_Split
  \/ Build_Combine
  \/ Build_LeafCheck
  \/ Flush

Spec == Init /\ [][Next]_vars

\* A second builder run on the same point array with the same parameters,
\* after the result of the first has been recorded.
SecondBuild ==
  /\ pc = "done" /\ first_build = <<>>
  /\ first_build' = <<[nodes |-> nodes_, points |-> points_,
                       infos |-> point_infos_]>>
  /\ points_' = points_in
  /\ point_infos_' = [i \in DOMAIN points_in |-> i]
  /\ nodes_' = <<>>
  /\ leaf_size_' = Unset
  /\ dim_' = Unset
  /\ accessed' = {}
  /\ pc' = "InitBuild"
  /\ UNCHANGED <<leaf_size_param, stack, points_in>>
  /\ UNCHANGED <<nbvars, restvars>>

NextTwoBuilds == Next \/ SecondBuild

SpecTwoBuilds == Init /\ [][NextTwoBuilds]_vars

\* The build is sequential code: a step that can be taken is taken.
FairSpec == Spec /\ WF_vars(Next)

Done == pc = "done"


\* ------------------------------------------------------- tree queries ---
NodeIds == DOMAIN nodes_
Childless(n) == n.child0 = Unset /\ n.child1 = Unset
HasChildren(n) == n.child0 # Unset /\ n.child1 # Unset
Range(n) == n.begin..(n.begin + n.count - 1)
AllIdentical(pts) == \A i, j \in DOMAIN pts : pts[i] = pts[j]
Swapped == points_ # points_in

RECURSIVE SumCounts(_)
SumCounts(S) ==
  IF S = {} THEN 0
  ELSE LET i == CHOOSE x \in S : TRUE
       IN nodes_[i].count + SumCounts(S \ {i})

\* ------------------------------------------------------------- claims ---

\* C1 Bound containment: when the build has finished, every point whose
\* index lies in a node's range [begin, begin + count) lies inside that
\* node's bound in every dimension; this holds for the root, for internal
\* nodes and for leaves, and for inputs with duplicate and collinear points.
C1_BoundContainment ==
  Done => \A i \in NodeIds : \A j \in Range(nodes_[i]) :
            BoundContains(nodes_[i].bound, points_[j])

\* A finished build that split, swapped points and holds a duplicate point.
C1_Witness ==
  /\ Done /\ Swapped /\ Cardinality(NodeIds) >= 3
  /\ \E i, j \in DOMAIN points_ : i # j /\ points_[i] = points_[j]

\* The ranges of l and r are contiguous, disjoint and cover the range of n.
Conserves(n, l, r) ==
  /\ l.begin = n.begin
  /\ r.begin = l.begin + l.count
  /\ l.count + r.count = n.count

\* C2 Partition conservation: a node that Build_ has split (its children
\* have received their ranges, or it has been given its children) has
\* left.begin = node.begin, right.begin = left.begin + left.count and
\* left.count + right.count = node.count; and when the build has finished
\* the counts of the nodes without children sum to N.
C2_PartitionConservation ==
  /\ \A i \in NodeIds : HasChildren(nodes_[i]) =>
       Conserves(nodes_[i], nodes_[nodes_[i].child0], nodes_[nodes_[i].child1])
  /\ \A k \in 1..Len(stack) :
       (stack[k].left_i # Unset /\ nodes_[stack[k].left_i].count # Unset) =>
          Conserves(nodes_[stack[k].node_i], nodes_[stack[k].left_i],
                    nodes_[stack[k].right_i])
  /\ Done => SumCounts({i \in NodeIds : Childless(nodes_[i])}) = N

\* A finished build of three points into five nodes.
C2_Witness ==
  Done /\ Cardinality(NodeIds) = 5 /\ HasChildren(nodes_[0])

\* C3 Leaf rule (as claimed): after the build of a non-empty point array a
\* node is marked leaf exactly when it has no children, every node with
\* count <= leaf_size_ is marked leaf, and no node is left with neither
\* children nor the leaf mark.
C3_LeafRule ==
  (Done /\ DOMAIN points_in # {}) => \A i \in NodeIds :
            LET n == nodes_[i]
            IN /\ n.is_leaf <=> Childless(n)
               /\ n.count <= leaf_size_ => n.is_leaf
               /\ ~(HasChildren(n) /\ n.is_leaf)
               /\ n.is_leaf \/ HasChildren(n)

\* C4 Degenerate leaf: when all N >= 1 points are identical no child node is
\* ever allocated, and the finished tree is the root alone, without children
\* and owning the whole range, whatever leaf_size_ is (also leaf_size_ < N).
C4_DegenerateLeaf ==
  (DOMAIN points_in # {} /\ AllIdentical(points_in)) =>
     /\ Cardinality(NodeIds) <= 1
     /\ Done => /\ NodeIds = {0}
                /\ Childless(nodes_[0])
                /\ nodes_[0].begin = 0 /\ nodes_[0].count = N

\* A finished build of identical points, more of them than leaf_size_.
C4_Witness ==
  Done /\ N >= 2 /\ N > leaf_size_ /\ AllIdentical(points_in)

\* Each node that received its range from a split has at least one point and
\* fewer points than the node that was split.
StrictlyFewer ==
  \A k \in 1..Len(stack) :
    LET f == stack[k]
    IN (f.left_i # Unset /\ nodes_[f.left_i].count # Unset) =>
         /\ nodes_[f.left_i].count < nodes_[f.node_i].count
         /\ nodes_[f.right_i].count < nodes_[f.node_i].count

\* Variant of the cursor loop of Partition_: three times the number of
\* points between the cursors, plus the number of loop parts still to run
\* before the next swap test.
CursorMeasure(f) ==
  3 * (f.right - f.left + 1)
    + (IF f.pc = "part_left" THEN 2 ELSE IF f.pc = "part_right" THEN 1 ELSE 0)

InPartition(stk) ==
  stk # <<>> /\ stk[Len(stk)].pc \in {"part_left", "part_right", "part_check"}

\* A step that stays inside one call of Partition_ lowers the variant, which
\* never falls below zero.
LoopStepDecreases ==
  (InPartition(stack) /\ InPartition(stack') /\ Len(stack') = Len(stack)) =>
     /\ CursorMeasure(stack'[Len(stack')]) < CursorMeasure(stack[Len(stack)])
     /\ CursorMeasure(stack'[Len(stack')]) >= 0

EventuallyDone == <>Done

C7_SplitSelection ==
  \A k \in 1..Len(stack) :
    LET f == stack[k]
        b == nodes_[f.node_i].bound
    IN f.split_dim # Unset =>
         /\ f.split_dim \in 0..(dim_ - 1)
         /\ \A d \in 0..(dim_ - 1) : Width(b[d]) <= Width(b[f.split_dim])
         /\ \A d \in 0..(f.split_dim - 1) : Width(b[d]) < Width(b[f.split_dim])
         /\ 2 * f.split_val = b[f.split_dim].lo + b[f.split_dim].hi

\* A split of a node whose two first dimensions are equally wide, and a
\* split on a dimension other than the first.
C7_Witness ==
  /\ Done
  /\ \E i \in NodeIds : HasChildren(nodes_[i]) /\ nodes_[i].count = 3
        /\ Width(nodes_[i].bound[0]) = Width(nodes_[i].bound[1])
        /\ Width(nodes_[i].bound[0]) > 0

\* C8 Payload moves with its point: at every moment the info stored at
\* index i is the one originally paired with the point now stored at index
\* i, and the infos are a permutation of the original ones.
C8_PayloadMoves ==
  /\ DOMAIN point_infos_ = DOMAIN points_
  /\ \A i \in DOMAIN points_ :
       /\ point_infos_[i] \in DOMAIN points_in
       /\ points_[i] = points_in[point_infos_[i]]
  /\ \A i, j \in DOMAIN points_ : point_infos_[i] = point_infos_[j] => i = j

\* Partition_ has swapped two points and their infos.
C8_Witness ==
  /\ \E i \in DOMAIN points_ : point_infos_[i] # i
  /\ \E i \in DOMAIN points_ : points_[i] # points_in[i]

\* What the determinism claim compares of a tree: topology, ranges, leaf
\* flags and bounds of every node.
TreeShape(nds) ==
  [i \in DOMAIN nds |->
     [begin |-> nds[i].begin, count |-> nds[i].count,
      child0 |-> nds[i].child0, child1 |-> nds[i].child1,
      is_leaf |-> nds[i].is_leaf, bound |-> nds[i].bound]]

\* C9 Determinism (as claimed): a second build on the same non-empty point
\* array with the same leaf_size_ ends with the same tree (topology, begin
\* and count, leaf flags, bounds of every node) and the same point order as
\* the first.
C9_Deterministic ==
  (Done /\ first_build # <<>> /\ DOMAIN points_in # {}) =>
     /\ TreeShape(first_build[1].nodes) = TreeShape(nodes_)
     /\ first_build[1].points = points_

\* C10 Empty input is rejected (as claimed): with an empty point array no
\* point is read, no node is allocated and Build_ is never called.
C10_EmptyRejected ==
  DOMAIN points_in = {} =>
     /\ accessed = {}
     /\ NodeIds = {}
     /\ pc \notin {"Build", "Build_", "done"}

\* C11 Statistic is built bottom-up (as claimed): after the build of a
\* non-empty point array every node's statistic has been initialised once
\* and post-processed exactly once, and the statistic of a node with
\* children is the combination of its children's finished statistics;
\* while the build runs, a node's statistic is combined only when Build_
\* has returned on both children.
C11_StatBottomUp ==
  /\ \A k \in 1..Len(stack) :
       stack[k].pc \in {"part_left", "part_right", "part_check", "split",
                        "in_left", "in_right"} =>
          nodes_[stack[k].node_i].stat.posts = 0
  /\ (Done /\ DOMAIN points_in # {}) => \A i \in NodeIds :
       LET n == nodes_[i]
       IN /\ n.stat.inits = 1
          /\ n.stat.posts = 1
          /\ HasChildren(n) =>
                n.stat.acc = nodes_[n.child0].stat.acc
                               + nodes_[n.child1].stat.acc
          /\ Childless(n) => n.stat.acc = n.count

PartitionFrames ==
  {k \in 1..Len(stack) :
     stack[k].pc \in {"part_left", "part_right", "part_check", "split"}}

\* C21 Cursor crossing: throughout Partition_ on [first, first + count) the
\* cursors satisfy first <= left <= right + 1 <= first + count, every point
\* below left is strictly below the split value and every point above right
\* is at or above it; the loop is left only with left = right + 1 (never
\* while left <= right), and the returned index is left.
C21_CursorCrossing ==
  \A k \in PartitionFrames :
    LET f == stack[k]
        n == nodes_[f.node_i]
    IN /\ n.begin <= f.left /\ f.left <= f.right + 1
       /\ f.right + 1 <= NodeEnd(n)
       /\ \A j \in n.begin..(f.left - 1) :
             points_[j][f.split_dim] < f.split_val
       /\ \A j \in (f.right + 1)..(NodeEnd(n) - 1) :
             points_[j][f.split_dim] >= f.split_val
       /\ f.pc = "split" => f.left = f.right + 1

\* Partition_ has returned with crossed cursors strictly inside a range of
\* three points, after a swap.
C21_Witness ==
  /\ stack # <<>> /\ Top.pc = "split" /\ Swapped
  /\ nodes_[Top.node_i].count = 3
  /\ Top.left = Top.right + 1
  /\ Top.right >= nodes_[Top.node_i].begin

\* One bound lies inside another in every dimension.
BoundInside(inner, outer) ==
  \A d \in DOMAIN inner :
    outer[d].lo <= inner[d].lo /\ inner[d].hi <= outer[d].hi

\* C22 Child bounds are tight and nested: when Partition_ has returned the
\* index s, left_bound is exactly the bounding box of the points now in
\* [first, s) and right_bound exactly that of the points in
\* [s, first + count), and both lie inside the parent's bound; the same
\* holds for every node with children when the build has finished.
C22_ChildBoundsTight ==
  /\ \A k \in 1..Len(stack) :
       LET f == stack[k]
           n == nodes_[f.node_i]
       IN f.pc = "split" =>
            /\ nodes_[f.left_i].bound =
                 FindBoundingBox_(points_, n.begin, f.left - n.begin,
                                  BoundInit(dim_))
            /\ nodes_[f.right_i].bound =
                 FindBoundingBox_(points_, f.left, NodeEnd(n) - f.left,
                                  BoundInit(dim_))
            /\ BoundInside(nodes_[f.left_i].bound, n.bound)
            /\ BoundInside(nodes_[f.right_i].bound, n.bound)
  /\ Done => \A i \in NodeIds : HasChildren(nodes_[i]) =>
       \A c \in {nodes_[i].child0, nodes_[i].child1} :
         /\ nodes_[c].bound =
              FindBoundingBox_(points_, nodes_[c].begin, nodes_[c].count,
                               BoundInit(dim_))
         /\ BoundInside(nodes_[c].bound, nodes_[i].bound)

\* Partition_ has returned on three points after a swap, and the two child
\* bounds differ from the parent's bound.
C22_Witness ==
  /\ stack # <<>> /\ Top.pc = "split" /\ Swapped
  /\ nodes_[Top.node_i].count = 3
  /\ nodes_[Top.left_i].bound # nodes_[Top.node_i].bound
  /\ nodes_[Top.right_i].bound # nodes_[Top.node_i].bound

\* How many indices of the set S hold the value p in the array arr.
Occurrences(arr, S, p) == Cardinality({j \in S : arr[j] = p})

\* C23 Partition frame and in-range access: a step inside Partition_ on
\* [first, first + count) leaves every point and info outside the range
\* untouched and leaves the multiset of points and of infos inside the
\* range unchanged; every index Partition_ reads or writes lies in the
\* range.
C23_PartitionFrame ==
  /\ [][InPartition(stack) =>
          LET R == Range(nodes_[Top.node_i])
          IN /\ DOMAIN points_' = DOMAIN points_
             /\ \A j \in DOMAIN points_ \ R :
                   points_'[j] = points_[j] /\ point_infos_'[j] = point_infos_[j]
             /\ \A p \in {points_[j] : j \in R} \cup {points_'[j] : j \in R} :
                   Occurrences(points_', R, p) = Occurrences(points_, R, p)
             /\ {point_infos_'[j] : j \in R} = {point_infos_[j] : j \in R}]_vars
  /\ [](InPartition(stack) => accessed \subseteq Range(nodes_[Top.node_i]))

\* Partition_ on the last two of three points has swapped them and has
\* touched both cursors' indices.
C23_Witness ==
  /\ InPartition(stack)
  /\ nodes_[Top.node_i].begin >= 1
  /\ Cardinality(accessed) >= 2
  /\ \E j \in Range(nodes_[Top.node_i]) : point_infos_[j] # j


\* ====================================================================== *
\* N-body statistics (nbody_simulator_tripletree.h): the Postponed, Delta, *
\* Result, Global, Summary and Statistic classes.  Values are integers.    *
\* ====================================================================== *

\* std::numeric_limits<double>::max(), larger than every value that occurs.
DBL_MAX == 1000

\* core::math::Range: Init(lo, hi), operator+ (interval sum) and operator|=
\* (interval hull); containment of one interval in another.
RangeInit(lo, hi) == [lo |-> lo, hi |-> hi]
RangeAdd(a, b) == [lo |-> a.lo + b.lo, hi |-> a.hi + b.hi]
RangeHull(a, b) == [lo |-> Min2(a.lo, b.lo), hi |-> Max2(a.hi, b.hi)]
RangeContains(outer, inner) == outer.lo <= inner.lo /\ inner.hi <= outer.hi

\* ----------------------------------------------- NbodySimulatorDelta ---
\* Delta::SetZero, also the state left by the constructor; its
\* DeterministicCompute has an empty body and leaves the delta as it is.
DeltaSetZero ==
  [negative_potential_ |-> [i \in 0..2 |-> RangeInit(0, 0)],
   positive_potential_ |-> [i \in 0..2 |-> RangeInit(0, 0)],
   pruned_ |-> [i \in 0..2 |-> 0],
   used_error_ |-> [i \in 0..2 |-> 0]]

DeterministicCompute(delta) == delta

\* ------------------------------------------- NbodySimulatorPostponed ---
\* Variant: SetZero leaves pruned_ as it was.
PostponedSetZeroKeepsPruned(p) ==
  [negative_potential_ |-> RangeInit(0, 0),
   positive_potential_ |-> RangeInit(0, 0),
   pruned_ |-> p.pruned_,
   used_error_ |-> 0]

\* Postponed::SetZero.
PostponedSetZero(p) ==
  [negative_potential_ |-> RangeInit(0, 0),
   positive_potential_ |-> RangeInit(0, 0),
   pruned_ |-> 0,
   used_error_ |-> 0]

\* Postponed::Init(num_tuples), the body of Postponed(double num_tuples).
PostponedInit(num_tuples) ==
  [negative_potential_ |-> RangeInit(0, 0),
   positive_potential_ |-> RangeInit(0, 0),
   pruned_ |-> num_tuples,
   used_error_ |-> 0]

\* Postponed::ApplyDelta(delta_in, node_index, query_results).
PostponedApplyDelta(p, delta_in, node_index) ==
  [negative_potential_ |->
     RangeAdd(p.negative_potential_, delta_in.negative_potential_[node_index]),
   positive_potential_ |->
     RangeAdd(p.positive_potential_, delta_in.positive_potential_[node_index]),
   pruned_ |-> p.pruned_ + delta_in.pruned_[node_index],
   used_error_ |-> p.used_error_ + delta_in.used_error_[node_index]]

\* Variant: the other object's pruned_ replaces this one's.
PostponedApplyPostponedDropsPruned(p, other_postponed) ==
  [negative_potential_ |->
     RangeAdd(p.negative_potential_, other_postponed.negative_potential_),
   positive_potential_ |->
     RangeAdd(p.positive_potential_, other_postponed.positive_potential_),
   pruned_ |-> other_postponed.pruned_,
   used_error_ |-> p.used_error_ + other_postponed.used_error_]

\* Postponed::ApplyPostponed(other_postponed).
PostponedApplyPostponed(p, other_postponed) ==
  [negative_potential_ |->
     RangeAdd(p.negative_potential_, other_postponed.negative_potential_),
   positive_potential_ |->
     RangeAdd(p.positive_potential_, other_postponed.positive_potential_),
   pruned_ |-> p.pruned_ + other_postponed.pruned_,
   used_error_ |-> p.used_error_ + other_postponed.used_error_]

\* ---------------------------------------------- NbodySimulatorResult ---
\* Variant: SetZero leaves the pruned_ and used_error_ vectors as they were.
ResultSetZeroKeepsCounters(r) ==
  [negative_potential_ |-> [i \in DOMAIN r.negative_potential_ |-> RangeInit(0, 0)],
   positive_potential_ |-> [i \in DOMAIN r.positive_potential_ |-> RangeInit(0, 0)],
   potential_e_ |-> [i \in DOMAIN r.potential_e_ |-> 0],
   pruned_ |-> r.pruned_,
   used_error_ |-> r.used_error_]

\* Result::SetZero: every entry of every vector.
ResultSetZero(r) ==
  [negative_potential_ |-> [i \in DOMAIN r.negative_potential_ |-> RangeInit(0, 0)],
   positive_potential_ |-> [i \in DOMAIN r.positive_potential_ |-> RangeInit(0, 0)],
   potential_e_ |-> [i \in DOMAIN r.potential_e_ |-> 0],
   pruned_ |-> [i \in DOMAIN r.pruned_ |-> 0],
   used_error_ |-> [i \in DOMAIN r.used_error_ |-> 0]]

\* std::vector::resize(num_points): the old entries below num_points stay,
\* new entries are value-initialised.
Resize(vec, num_points, fresh) ==
  [i \in 0..(num_points - 1) |-> IF i \in DOMAIN vec THEN vec[i] ELSE fresh]

\* Result::Init(num_points): resize of the five vectors, then SetZero.
ResultInit(r, num_points) ==
  ResultSetZero(
    [negative_potential_ |-> Resize(r.negative_potential_, num_points, RangeInit(0, 0)),
     positive_potential_ |-> Resize(r.positive_potential_, num_points, RangeInit(0, 0)),
     potential_e_ |-> Resize(r.potential_e_, num_points, 0),
     pruned_ |-> Resize(r.pruned_, num_points, 0),
     used_error_ |-> Resize(r.used_error_, num_points, 0)])

\* A Result object before Init: five empty vectors.
ResultEmpty ==
  [negative_potential_ |-> <<>>, positive_potential_ |-> <<>>,
   potential_e_ |-> <<>>, pruned_ |-> <<>>, used_error_ |-> <<>>]

\* Variant: the postponed pruned_ replaces the entry instead of adding to it.
ResultApplyPostponedAssigns(r, q_index, postponed_in) ==
  [r EXCEPT
     !.negative_potential_[q_index] = RangeAdd(@, postponed_in.negative_potential_),
     !.positive_potential_[q_index] = RangeAdd(@, postponed_in.positive_potential_),
     !.pruned_[q_index] = postponed_in.pruned_,
     !.used_error_[q_index] = @ + postponed_in.used_error_]

\* Result::ApplyPostponed(q_index, postponed_in).
ResultApplyPostponed(r, q_index, postponed_in) ==
  [r EXCEPT
     !.negative_potential_[q_index] = RangeAdd(@, postponed_in.negative_potential_),
     !.positive_potential_[q_index] = RangeAdd(@, postponed_in.positive_potential_),
     !.pruned_[q_index] = @ + postponed_in.pruned_,
     !.used_error_[q_index] = @ + postponed_in.used_error_]

\* Result::PostProcess(metric, q_index, global).
ResultPostProcess(r, q_index) ==
  [r EXCEPT !.potential_e_[q_index] =
              Mid(r.negative_potential_[q_index])
                + Mid(r.positive_potential_[q_index])]

\* ---------------------------------------------- NbodySimulatorGlobal ---
\* Variant: a negative value is stored with its sign dropped.
ApplyContributionAbs(potential_value, postponeds) ==
  [i \in DOMAIN postponeds |->
     [negative_potential_ |-> RangeInit(0, 0),
      positive_potential_ |->
        IF potential_value < 0
        THEN RangeInit(0 - potential_value, 0 - potential_value)
        ELSE RangeInit(potential_value, potential_value),
      pruned_ |-> 0,
      used_error_ |-> 0]]

\* Global::ApplyContribution(range_in, postponeds), from the value
\* potential_.EvalUnnormOnSq(range_in) on: every postponed of the vector
\* receives the value as an exact interval on the side of its sign, and
\* its pruned_ and used_error_ are set to zero.
ApplyContribution(potential_value, postponeds) ==
  [i \in DOMAIN postponeds |->
     [negative_potential_ |->
        IF potential_value < 0
        THEN RangeInit(potential_value, potential_value)
        ELSE RangeInit(0, 0),
      positive_potential_ |->
        IF potential_value < 0
        THEN RangeInit(0, 0)
        ELSE RangeInit(potential_value, potential_value),
      pruned_ |-> 0,
      used_error_ |-> 0]]

\* --------------------------------------------- NbodySimulatorSummary ---
\* Variant: the pruning test accepts every node pair.
CanSummarizeAlways(summary, delta, qnode, rnode, query_results) == TRUE

\* Summary::CanSummarize(global, delta, qnode, rnode, query_results).
CanSummarize(summary, delta, qnode, rnode, query_results) == FALSE

\* Summary::SetZero.
SummarySetZero(s) ==
  [negative_potential_ |-> RangeInit(0, 0),
   positive_potential_ |-> RangeInit(0, 0),
   pruned_ |-> 0,
   used_error_ |-> 0]

\* Summary::StartReaccumulate.
StartReaccumulate(s) ==
  [negative_potential_ |-> RangeInit(DBL_MAX, 0 - DBL_MAX),
   positive_potential_ |-> RangeInit(DBL_MAX, 0 - DBL_MAX),
   pruned_ |-> DBL_MAX,
   used_error_ |-> 0]

\* Summary::Accumulate(results, q_index).
AccumulateResult(s, r, q_index) ==
  [negative_potential_ |->
     RangeHull(s.negative_potential_, r.negative_potential_[q_index]),
   positive_potential_ |->
     RangeHull(s.positive_potential_, r.positive_potential_[q_index]),
   pruned_ |-> Min2(s.pruned_, r.pruned_[q_index]),
   used_error_ |-> Max2(s.used_error_, r.used_error_[q_index])]

\* Summary::Accumulate(summary_in).
AccumulateSummary(s, summary_in) ==
  [negative_potential_ |->
     RangeHull(s.negative_potential_, summary_in.negative_potential_),
   positive_potential_ |->
     RangeHull(s.positive_potential_, summary_in.positive_potential_),
   pruned_ |-> Min2(s.pruned_, summary_in.pruned_),
   used_error_ |-> Max2(s.used_error_, summary_in.used_error_)]

\* Summary::Accumulate(summary_in, postponed_in): negative_potential_ is
\* widened with |=, positive_potential_ is assigned with =.
Accumulate(s, summary_in, postponed_in) ==
  [negative_potential_ |->
     RangeHull(s.negative_potential_,
               RangeAdd(summary_in.negative_potential_,
                        postponed_in.negative_potential_)),
   positive_potential_ |->
     RangeAdd(summary_in.positive_potential_, postponed_in.positive_potential_),
   pruned_ |-> Min2(s.pruned_, summary_in.pruned_ + postponed_in.pruned_),
   used_error_ |->
     Max2(s.used_error_, summary_in.used_error_ + postponed_in.used_error_)]

\* Summary::ApplyDelta(delta_in, node_index): the two intervals only.
SummaryApplyDelta(s, delta_in, node_index) ==
  [s EXCEPT
     !.negative_potential_ = RangeAdd(@, delta_in.negative_potential_[node_index]),
     !.positive_potential_ = RangeAdd(@, delta_in.positive_potential_[node_index])]

\* Summary::ApplyPostponed(postponed_in).
SummaryApplyPostponed(s, postponed_in) ==
  [negative_potential_ |->
     RangeAdd(s.negative_potential_, postponed_in.negative_potential_),
   positive_potential_ |->
     RangeAdd(s.positive_potential_, postponed_in.positive_potential_),
   pruned_ |-> s.pruned_ + postponed_in.pruned_,
   used_error_ |-> s.used_error_ + postponed_in.used_error_]

\* ------------------------------------------- NbodySimulatorStatistic ---
\* Statistic::SetZero: SetZero of postponed_ and of summary_.
StatisticSetZero(st) ==
  [postponed_ |-> PostponedSetZero(st.postponed_),
   summary_ |-> SummarySetZero(st.summary_)]

\* Statistic::Init(iterator) and Init(iterator, left_stat, right_stat):
\* both are SetZero; the members come from their constructors, which are
\* SetZero as well.
StatisticInit ==
  StatisticSetZero([postponed_ |-> PostponedInit(0),
                    summary_ |-> SummarySetZero(<<>>)])

\* ------------------------------------------------- a tree with points ---
\* A root whose two children are leaves; the left leaf owns point 0, the
\* right leaf owns points 1 and 2.
NbRoot == 0
NbLeaves == {1, 2}
NbNodes == {NbRoot} \cup NbLeaves
NbPoints == 0..2
NodePoints(n) == IF n = NbRoot THEN NbPoints ELSE IF n = 1 THEN {0} ELSE {1, 2}
LeafOf(q) == IF q = 0 THEN 1 ELSE 2
IsLeaf(n) == n \in NbLeaves
ChildrenOf(n) == IF n = NbRoot THEN <<1, 2>> ELSE <<>>

\* Values handed to the classes by their caller.
PotentialValues == {0 - 1, 2}
TupleCounts == {1}
ErrorValues == {0, 1}

\* The statistics of a freshly built tree and a Result after Init.
FreshStats == [n \in NbNodes |-> StatisticInit]
FreshResults == ResultInit(ResultEmpty, Cardinality(NbPoints))

\* The kd-tree builder is not in use while the statistics classes run.
KdIdle ==
  /\ points_ = <<>>
  /\ point_infos_ = <<>>
  /\ nodes_ = <<>>
  /\ leaf_size_ = Unset
  /\ leaf_size_param = 1
  /\ dim_ = Unset
  /\ stack = <<>>
  /\ pc = "none"
  /\ accessed = {}
  /\ points_in = <<>>
  /\ first_build = <<>>

kdvars == <<points_, point_infos_, nodes_, leaf_size_, leaf_size_param, dim_,
            stack, pc, accessed, points_in, first_build>>

\* The Postponed objects a caller can construct: Postponed(num_tuples), and
\* an entry of the vector filled by Global::ApplyContribution.
PostponedInputs ==
  {PostponedInit(k) : k \in TupleCounts}
    \cup {ApplyContribution(v, <<PostponedInit(0)>>)[1] : v \in PotentialValues}

\* Applies Result::ApplyPostponed(q, postponed_in) for every q of the
\* sequence qs, in order.
RECURSIVE FlushTo(_, _, _)
FlushTo(r, qs, postponed_in) ==
  IF qs = <<>> THEN r
  ELSE FlushTo(ResultApplyPostponed(r, Head(qs), postponed_in), Tail(qs),
               postponed_in)

\* The points of a node in index order.
RECURSIVE SeqOf(_)
SeqOf(S) ==
  IF S = {} THEN <<>>
  ELSE LET m == CHOOSE x \in S : \A y \in S : x <= y
       IN <<m>> \o SeqOf(S \ {m})

\* ------------------------------------- the callers of the statistics ---
\* Push-down at a node with children: each child's postponed_ receives the
\* parent's with ApplyPostponed, then the parent's is SetZero.
PushDownAt(st, n) ==
  LET c == ChildrenOf(n)
  IN [st EXCEPT
        ![c[1]].postponed_ = PostponedApplyPostponed(@, st[n].postponed_),
        ![c[2]].postponed_ = PostponedApplyPostponed(@, st[n].postponed_),
        ![n].postponed_ = PostponedSetZero(@)]

\* Flush of a leaf: its postponed_ goes to the Result entry of each of its
\* points with Result::ApplyPostponed, then it is SetZero.
FlushLeafAt(st, r, n) ==
  [stats |-> [st EXCEPT ![n].postponed_ = PostponedSetZero(@)],
   results |-> FlushTo(r, SeqOf(NodePoints(n)), st[n].postponed_)]

\* Re-accumulation of a node with children: StartReaccumulate, then
\* Accumulate(child summary_, child postponed_) for the left and then the
\* right child.
ReaccumulateAt(st, n) ==
  LET c == ChildrenOf(n)
      s0 == StartReaccumulate(st[n].summary_)
      s1 == Accumulate(s0, st[c[1]].summary_, st[c[1]].postponed_)
  IN Accumulate(s1, st[c[2]].summary_, st[c[2]].postponed_)

\* Re-accumulation of a leaf from the Result entries of the points qs.
RECURSIVE AccumulateResults(_, _, _)
AccumulateResults(s, r, qs) ==
  IF qs = <<>> THEN s
  ELSE AccumulateResults(AccumulateResult(s, r, Head(qs)), r, Tail(qs))

\* PostProcess of every point of the sequence qs.
RECURSIVE PostProcessAll(_, _)
PostProcessAll(r, qs) ==
  IF qs = <<>> THEN r
  ELSE PostProcessAll(ResultPostProcess(r, Head(qs)), Tail(qs))

\* History at the start of a run: how often each pair of points has been
\* evaluated exactly, and the statistics and Result a final flush or a reset
\* started from.
NoHistory == [exact |-> <<>>, before |-> <<>>]

InitStatistics ==
  /\ KdIdle
  /\ RestIdle
  /\ stats = FreshStats
  /\ results = FreshResults
  /\ relative_error_ \in ErrorValues
  /\ phase = "run"
  /\ ops = 0
  /\ work = <<>>
  /\ potential_ = <<>>
  /\ hist = NoHistory

\* An exactly computed contribution for point q: Global::ApplyContribution
\* fills a Postponed, Result::ApplyPostponed adds it to the point's entry.
ExactContribution ==
  /\ phase = "run" /\ ops < MaxOps
  /\ \E q \in NbPoints, v \in PotentialValues :
       results' = ResultApplyPostponed(
                    results, q, ApplyContribution(v, <<PostponedInit(0)>>)[1])
  /\ ops' = ops + 1
  /\ UNCHANGED <<stats, relative_error_, phase, work, potential_, hist, kdvars, restvars>>

\* A Delta is computed and applied to a node's postponed_ and summary_.
ApplyDelta ==
  /\ phase = "run" /\ ops < MaxOps
  /\ \E n \in NbNodes, node_index \in 0..2 :
       LET delta == DeterministicCompute(DeltaSetZero)
       IN stats' = [stats EXCEPT
                      ![n].postponed_ = PostponedApplyDelta(@, delta, node_index),
                      ![n].summary_ = SummaryApplyDelta(@, delta, node_index)]
  /\ ops' = ops + 1
  /\ UNCHANGED <<results, relative_error_, phase, work, potential_, hist, kdvars, restvars>>

\* A constructed Postponed is added to a node's postponed_.
Postpone ==
  /\ phase = "run" /\ ops < MaxOps
  /\ \E n \in NbNodes, p \in PostponedInputs :
       stats' = [stats EXCEPT ![n].postponed_ = PostponedApplyPostponed(@, p)]
  /\ ops' = ops + 1
  /\ UNCHANGED <<results, relative_error_, phase, work, potential_, hist, kdvars, restvars>>

\* The root's postponed_ is pushed down to its children.
PushDown ==
  /\ phase = "run" /\ ops < MaxOps
  /\ stats' = PushDownAt(stats, NbRoot)
  /\ ops' = ops + 1
  /\ UNCHANGED <<results, relative_error_, phase, work, potential_, hist, kdvars, restvars>>

\* A leaf's postponed_ is flushed to its points.
FlushLeaf ==
  /\ phase = "run" /\ ops < MaxOps
  /\ \E n \in NbLeaves :
       LET f == FlushLeafAt(stats, results, n)
       IN stats' = f.stats /\ results' = f.results
  /\ ops' = ops + 1
  /\ UNCHANGED <<relative_error_, phase, work, potential_, hist, kdvars, restvars>>

\* A node's summary_ receives the node's postponed_ with ApplyPostponed.
SummaryPostponed ==
  /\ phase = "run" /\ ops < MaxOps
  /\ \E n \in NbNodes :
       stats' = [stats EXCEPT
                   ![n].summary_ = SummaryApplyPostponed(@, stats[n].postponed_)]
  /\ ops' = ops + 1
  /\ UNCHANGED <<results, relative_error_, phase, work, potential_, hist, kdvars, restvars>>

\* The root's summary_ is re-accumulated from its children.
Reaccumulate ==
  /\ phase = "run" /\ ops < MaxOps
  /\ stats' = [stats EXCEPT ![NbRoot].summary_ = ReaccumulateAt(stats, NbRoot)]
  /\ ops' = ops + 1
  /\ UNCHANGED <<results, relative_error_, phase, work, potential_, hist, kdvars, restvars>>

\* A leaf's summary_ is re-accumulated from the Result entries of its points.
ReaccumulateLeaf ==
  /\ phase = "run" /\ ops < MaxOps
  /\ \E n \in NbLeaves :
       stats' = [stats EXCEPT
                   ![n].summary_ =
                      AccumulateResults(StartReaccumulate(@), results,
                                        SeqOf(NodePoints(n)))]
  /\ ops' = ops + 1
  /\ UNCHANGED <<results, relative_error_, phase, work, potential_, hist, kdvars, restvars>>

\* Finalization: the root's postponed_ is pushed down, each leaf is flushed
\* to its points, and every point is post-processed.
Finalize ==
  /\ phase = "run" /\ work = <<>>
  /\ LET st == PushDownAt(stats, NbRoot)
         f1 == FlushLeafAt(st, results, 1)
         f2 == FlushLeafAt(f1.stats, f1.results, 2)
     IN /\ stats' = f2.stats
        /\ results' = PostProcessAll(f2.results, SeqOf(NbPoints))
  /\ phase' = "complete"
  /\ hist' = [hist EXCEPT !.before = [stats |-> stats, results |-> results]]
  /\ UNCHANGED <<relative_error_, ops, work, potential_, kdvars, restvars>>

\* Preparation of the next run, after a finished or an abandoned one:
\* Statistic::SetZero on every node and Result::Init.
Reset ==
  /\ phase \in {"run", "complete"}
  /\ stats' = [n \in NbNodes |-> StatisticSetZero(stats[n])]
  /\ results' = ResultInit(results, Cardinality(NbPoints))
  /\ phase' = "reset"
  /\ hist' = [hist EXCEPT !.before = [stats |-> stats, results |-> results]]
  /\ UNCHANGED <<relative_error_, ops, work, potential_, kdvars, restvars>>

\* The next run starts on the reset statistics.
NextRun ==
  /\ phase = "reset"
  /\ phase' = "run"
  /\ ops' = 0
  /\ hist' = NoHistory
  /\ UNCHANGED <<stats, results, relative_error_, work, potential_, kdvars, restvars>>

NextStatistics ==
  \/ ExactContribution
  \/ ApplyDelta
  \/ Postpone
  \/ PushDown
  \/ FlushLeaf
  \/ SummaryPostponed
  \/ Reaccumulate
  \/ ReaccumulateLeaf
  \/ Finalize
  \/ Reset
  \/ NextRun

SpecStatistics == InitStatistics /\ [][NextStatistics]_vars

\* ------------------------------------------ claims on the statistics ---
ZeroRange(r) == r.lo = 0 /\ r.hi = 0

\* Every field of a Postponed or Summary object is zero.
AllZero(x) ==
  /\ ZeroRange(x.negative_potential_) /\ ZeroRange(x.positive_potential_)
  /\ x.pruned_ = 0 /\ x.used_error_ = 0

\* A step of the current run: not the preparation of the next one.
RunStep == phase = "run" /\ phase' = "run"

\* C12 Monotone summary tightening (as claimed): a step of a run that
\* updates a node's Summary (re-accumulation, ApplyDelta, ApplyPostponed)
\* leaves its negative and its positive potential interval contained in
\* or equal to the interval before the step.
C12_MonotoneTightening ==
  [][RunStep =>
       \A n \in NbNodes :
         /\ RangeContains(stats[n].summary_.negative_potential_,
                          stats'[n].summary_.negative_potential_)
         /\ RangeContains(stats[n].summary_.positive_potential_,
                          stats'[n].summary_.positive_potential_)]_vars

\* What a child contributes to its parent's re-accumulation.
ChildTotal(st, c) ==
  [negative_potential_ |-> RangeAdd(st[c].summary_.negative_potential_,
                                    st[c].postponed_.negative_potential_),
   positive_potential_ |-> RangeAdd(st[c].summary_.positive_potential_,
                                    st[c].postponed_.positive_potential_),
   pruned_ |-> st[c].summary_.pruned_ + st[c].postponed_.pruned_,
   used_error_ |-> st[c].summary_.used_error_ + st[c].postponed_.used_error_]

\* C13 Accumulate is interval union (as claimed): after StartReaccumulate
\* and one Accumulate(summary_in, postponed_in) per child, the parent's
\* negative and positive potential intervals are the hull of the
\* children's (summary + postponed) intervals, its pruned_ is their
\* minimum and its used_error_ their maximum.
C13_AccumulateUnion ==
  [][Reaccumulate =>
       LET l == ChildTotal(stats, 1)
           r == ChildTotal(stats, 2)
           s == stats'[NbRoot].summary_
       IN /\ s.negative_potential_ =
               RangeHull(l.negative_potential_, r.negative_potential_)
          /\ s.positive_potential_ =
               RangeHull(l.positive_potential_, r.positive_potential_)
          /\ s.pruned_ = Min2(l.pruned_, r.pruned_)
          /\ s.used_error_ = Max2(l.used_error_, r.used_error_)]_vars

\* C15 Result counters: during a run (through any sequence of
\* Result::ApplyPostponed calls, the final flush included) no point's
\* pruned_ entry decreases, and no point's used_error_ entry exceeds the
\* global tolerance relative_error_.
C15_ResultCounters ==
  /\ [][(phase = "run" /\ phase' \in {"run", "complete"}) =>
          \A q \in NbPoints : results'.pruned_[q] >= results.pruned_[q]]_vars
  /\ [](phase \in {"run", "complete"} =>
          \A q \in NbPoints : results.used_error_[q] <= relative_error_)

\* A run in which a point has received postponed pruned tuples and another
\* point an exact contribution.
C15_Witness ==
  /\ phase = "run"
  /\ \E q \in NbPoints : results.pruned_[q] >= 1
  /\ \E q \in NbPoints : results.negative_potential_[q].lo < 0

\* The Postponed owed to point q on its path from the root to its leaf,
\* together with what its Result entry already holds.
PathTotal(st, r, q) ==
  LET a == st[NbRoot].postponed_
      b == st[LeafOf(q)].postponed_
  IN [negative_potential_ |->
        RangeAdd(RangeAdd(a.negative_potential_, b.negative_potential_),
                 r.negative_potential_[q]),
      positive_potential_ |->
        RangeAdd(RangeAdd(a.positive_potential_, b.positive_potential_),
                 r.positive_potential_[q]),
      pruned_ |-> a.pruned_ + b.pruned_ + r.pruned_[q],
      used_error_ |-> a.used_error_ + b.used_error_ + r.used_error_[q]]

\* C17 Finalization flushes each leaf once: when a run is complete no node
\* holds a non-zero Postponed, and every point's Result entry has grown by
\* exactly one copy of what was postponed on its leaf and above it when
\* finalization began.
C17_FinalFlush ==
  phase = "complete" =>
    /\ \A n \in NbNodes : AllZero(stats[n].postponed_)
    /\ \A q \in NbPoints :
         LET owed == PathTotal(hist.before.stats, hist.before.results, q)
         IN /\ results.negative_potential_[q] = owed.negative_potential_
            /\ results.positive_potential_[q] = owed.positive_potential_
            /\ results.pruned_[q] = owed.pruned_
            /\ results.used_error_[q] = owed.used_error_

\* A complete run that began finalization with postponed pruned tuples on
\* the root and a postponed potential on the leaf with two points.
C17_Witness ==
  /\ phase = "complete"
  /\ hist.before.stats[NbRoot].postponed_.pruned_ >= 1
  /\ ~ZeroRange(hist.before.stats[2].postponed_.positive_potential_)
  /\ results.pruned_[1] >= 1 /\ results.pruned_[2] >= 1

\* C18 Push-down preserves postponed work: a push-down step leaves in each
\* child the field-by-field sum of the child's and the parent's Postponed,
\* leaves the parent's Postponed zero, and leaves unchanged, for every
\* point, the sum of the Postponed on its root-to-leaf path plus its
\* Result entry.
C18_PushDownPreserves ==
  [][PushDown =>
       /\ \A c \in NbLeaves :
            LET old == stats[c].postponed_
                par == stats[NbRoot].postponed_
                new == stats'[c].postponed_
            IN /\ new.negative_potential_.lo =
                    old.negative_potential_.lo + par.negative_potential_.lo
               /\ new.negative_potential_.hi =
                    old.negative_potential_.hi + par.negative_potential_.hi
               /\ new.positive_potential_.lo =
                    old.positive_potential_.lo + par.positive_potential_.lo
               /\ new.positive_potential_.hi =
                    old.positive_potential_.hi + par.positive_potential_.hi
               /\ new.pruned_ = old.pruned_ + par.pruned_
               /\ new.used_error_ = old.used_error_ + par.used_error_
       /\ AllZero(stats'[NbRoot].postponed_)
       /\ \A q \in NbPoints :
            PathTotal(stats', results', q) = PathTotal(stats, results, q)]_vars

\* The state after a push-down of a postponed potential from the root into
\* a leaf that already held postponed pruned tuples.
C18_Witness ==
  /\ phase = "run" /\ ops = 3
  /\ AllZero(stats[NbRoot].postponed_)
  /\ stats[1].postponed_.pruned_ = 1
  /\ stats[1].postponed_.positive_potential_ = RangeInit(2, 2)
  /\ stats[2].postponed_.positive_potential_ = RangeInit(2, 2)

\* C19 Reset before re-run: after Statistic::SetZero on every node and
\* Result::Init, every field of every Postponed, Summary and Result entry
\* is zero whatever the previous run left, so the next run starts from the
\* state a run on a freshly built tree starts from.
C19_ResetBeforeRerun ==
  phase = "reset" =>
    /\ \A n \in NbNodes :
         AllZero(stats[n].postponed_) /\ AllZero(stats[n].summary_)
    /\ \A v \in {"negative_potential_", "positive_potential_",
                  "potential_e_", "pruned_", "used_error_"} :
         DOMAIN results[v] = NbPoints
    /\ \A q \in NbPoints :
         /\ ZeroRange(results.negative_potential_[q])
         /\ ZeroRange(results.positive_potential_[q])
         /\ results.potential_e_[q] = 0
         /\ results.pruned_[q] = 0
         /\ results.used_error_[q] = 0
    /\ stats = FreshStats /\ results = FreshResults

\* A reset after a run that left a non-zero Postponed and Summary on a node
\* and non-zero Result entries.
C19_Witness ==
  /\ phase = "reset"
  /\ \E n \in NbNodes : ~AllZero(hist.before.stats[n].postponed_)
  /\ \E n \in NbNodes : ~AllZero(hist.before.stats[n].summary_)
  /\ \E q \in NbPoints : ~ZeroRange(hist.before.results.negative_potential_[q])


\* C24 Re-accumulation is order-independent and starts from the identity
\* (as claimed): from StartReaccumulate on, accumulating the two children
\* as (summary, postponed) pairs, as summaries, or the two points of a leaf
\* as results gives the same Summary in either order; accumulating a
\* single child gives that child's intervals, its pruned_ and
\* max(0, its used_error_).
C24_ReaccumulateOrder ==
  phase = "run" =>
    LET s0 == StartReaccumulate(stats[NbRoot].summary_)
        a == stats[1]
        b == stats[2]
        one == Accumulate(s0, a.summary_, a.postponed_)
        t == ChildTotal(stats, 1)
    IN /\ Accumulate(Accumulate(s0, a.summary_, a.postponed_),
                     b.summary_, b.postponed_)
            = Accumulate(Accumulate(s0, b.summary_, b.postponed_),
                         a.summary_, a.postponed_)
       /\ AccumulateSummary(AccumulateSummary(s0, a.summary_), b.summary_)
            = AccumulateSummary(AccumulateSummary(s0, b.summary_), a.summary_)
       /\ AccumulateResult(AccumulateResult(s0, results, 1), results, 2)
            = AccumulateResult(AccumulateResult(s0, results, 2), results, 1)
       /\ one.negative_potential_ = t.negative_potential_
       /\ one.positive_potential_ = t.positive_potential_
       /\ one.pruned_ = t.pruned_
       /\ one.used_error_ = Max2(0, t.used_error_)


\* ====================================================================== *
\* The traversal over pairs (query node, reference node) of section 4.2,  *
\* on the tree above used for the query and for the reference points, with *
\* the statistics classes of nbody_simulator_tripletree.h.                *
\* ====================================================================== *
PointPairs == NbPoints \X NbPoints

\* The nodes a visit descends to: the children, or the node itself if it
\* is a leaf.
SelfOrChildren(n) == IF IsLeaf(n) THEN <<n>> ELSE ChildrenOf(n)

\* All pairs <<x, y>> of an entry of xs with an entry of ys, xs outermost.
RECURSIVE PairSeq(_, _)
PairSeq(xs, ys) ==
  IF xs = <<>> THEN <<>>
  ELSE [i \in 1..Len(ys) |-> <<Head(xs), ys[i]>>] \o PairSeq(Tail(xs), ys)

\* Exact computation over the point pairs of the sequence: for each pair
\* Global::ApplyContribution on a vector of two Postponed objects, then
\* Result::ApplyPostponed for the query point with the first of them.
RECURSIVE BaseCase(_, _, _)
BaseCase(r, table, pairs) ==
  IF pairs = <<>> THEN r
  ELSE LET postponeds ==
             ApplyContribution(table[Head(pairs)],
                               <<PostponedInit(0), PostponedInit(0)>>)
       IN BaseCase(ResultApplyPostponed(r, Head(pairs)[1], postponeds[1]),
                   table, Tail(pairs))

\* The naive evaluator: the sum over all reference points, point by point.
RECURSIVE NaiveSum(_, _, _)
NaiveSum(table, q, rs) ==
  IF rs = <<>> THEN 0
  ELSE table[<<q, Head(rs)>>] + NaiveSum(table, q, Tail(rs))

\* The history after the pairs of the sequence were evaluated exactly.
RECURSIVE CountExact(_, _)
CountExact(exact, pairs) ==
  IF pairs = <<>> THEN exact
  ELSE CountExact([exact EXCEPT ![Head(pairs)] = @ + 1], Tail(pairs))

InitTraversal ==
  /\ KdIdle
  /\ RestIdle
  /\ stats = FreshStats
  /\ results = FreshResults
  /\ relative_error_ \in ErrorValues
  /\ phase = "run"
  /\ ops = 0
  /\ work = <<[kind |-> "visit", qnode |-> NbRoot, rnode |-> NbRoot]>>
  /\ potential_ \in [PointPairs -> PotentialValues]
  /\ hist = [exact |-> [pr \in PointPairs |-> 0], before |-> <<>>]

\* One step of the traversal on the pair (qnode, rnode): the Delta, the
\* pruning test, and then the prune, the base case or the descent.
Visit ==
  /\ phase = "run" /\ work # <<>> /\ Head(work).kind = "visit"
  /\ LET qnode == Head(work).qnode
         rnode == Head(work).rnode
         delta == DeterministicCompute(DeltaSetZero)
         num_tuples == Cardinality(NodePoints(qnode))
                         * Cardinality(NodePoints(rnode))
         pairs == PairSeq(SeqOf(NodePoints(qnode)), SeqOf(NodePoints(rnode)))
     IN IF CanSummarize(stats[qnode].summary_, delta, qnode, rnode, results)
        THEN /\ stats' = [stats EXCEPT
                            ![qnode].postponed_ =
                               PostponedApplyPostponed(
                                 PostponedApplyDelta(@, delta, 0),
                                 PostponedInit(num_tuples)),
                            ![qnode].summary_ = SummaryApplyDelta(@, delta, 0)]
             /\ work' = Tail(work)
             /\ UNCHANGED <<results, hist>>
        ELSE IF IsLeaf(qnode) /\ IsLeaf(rnode)
        THEN /\ results' = BaseCase(results, potential_, pairs)
             /\ hist' = [hist EXCEPT !.exact = CountExact(@, pairs)]
             /\ work' = Tail(work)
             /\ UNCHANGED stats
        ELSE /\ stats' = IF IsLeaf(qnode) THEN stats
                         ELSE PushDownAt(stats, qnode)
             /\ work' =
                  [i \in 1..(Len(SelfOrChildren(qnode)) * Len(SelfOrChildren(rnode)))
                     |-> LET pr == PairSeq(SelfOrChildren(qnode),
                                           SelfOrChildren(rnode))[i]
                         IN [kind |-> "visit", qnode |-> pr[1], rnode |-> pr[2]]]
                  \o (IF IsLeaf(qnode) THEN <<>>
                      ELSE <<[kind |-> "reaccumulate", qnode |-> qnode,
                              rnode |-> rnode]>>)
                  \o Tail(work)
             /\ UNCHANGED <<results, hist>>
  /\ ops' = ops + 1
  /\ UNCHANGED <<relative_error_, phase, potential_, kdvars, restvars>>

\* After the visits of the child pairs returned: the query node's Summary
\* is re-accumulated from its children and receives its own Postponed.
ReaccumulateAfter ==
  /\ phase = "run" /\ work # <<>> /\ Head(work).kind = "reaccumulate"
  /\ LET qnode == Head(work).qnode
     IN stats' = [stats EXCEPT
                    ![qnode].summary_ =
                       SummaryApplyPostponed(ReaccumulateAt(stats, qnode),
                                             stats[qnode].postponed_)]
  /\ work' = Tail(work)
  /\ ops' = ops + 1
  /\ UNCHANGED <<results, relative_error_, phase, potential_, hist, kdvars, restvars>>

NextTraversal ==
  \/ Visit
  \/ ReaccumulateAfter
  \/ Finalize

SpecTraversal == InitTraversal /\ [][NextTraversal]_vars

\* C14 Pruned plus exact accounting: when a run is complete, for every
\* query point the pruned_ entry plus the number of reference points that
\* were combined with it exactly equals the number of reference points,
\* and no pair of points was evaluated twice.
C14_PrunedPlusExact ==
  (phase = "complete" /\ work = <<>> /\ hist.exact # <<>>) =>
     /\ \A q \in NbPoints :
          results.pruned_[q]
            + Cardinality({r \in NbPoints : hist.exact[<<q, r>>] >= 1})
              = Cardinality(NbPoints)
     /\ \A pr \in PointPairs : hist.exact[pr] <= 1

\* A complete traversal that descended from the root pair and evaluated
\* the pairs of the two-point leaf.
C14_Witness ==
  /\ phase = "complete" /\ hist.exact # <<>> /\ ops >= 5
  /\ hist.exact[<<1, 2>>] = 1 /\ hist.exact[<<2, 0>>] = 1

\* C16 No pruning equals naive: CanSummarize answers false for every pair
\* of nodes, so a complete run has evaluated every pair of points exactly
\* once, every query point's intervals are exact, its potential_e_ equals
\* the naive sum over all reference points, and its pruned_ and
\* used_error_ are 0.
C16_NoPruningEqualsNaive ==
  (phase = "complete" /\ hist.exact # <<>>) =>
     /\ \A pr \in PointPairs : hist.exact[pr] = 1
     /\ \A q \in NbPoints :
          /\ results.potential_e_[q] = NaiveSum(potential_, q, SeqOf(NbPoints))
          /\ Width(results.negative_potential_[q]) = 0
          /\ Width(results.positive_potential_[q]) = 0
          /\ results.pruned_[q] = 0
          /\ results.used_error_[q] = 0

\* A complete run on potentials of both signs whose naive sums differ
\* between query points.
C16_Witness ==
  /\ phase = "complete" /\ hist.exact # <<>>
  /\ \E q \in NbPoints : results.negative_potential_[q].lo < 0
                           /\ results.positive_potential_[q].hi > 0
  /\ results.potential_e_[0] # results.potential_e_[2]

\* ===================================================== opt_hcy.h: HCY ====
\* Hierarchical SVM trainer.  The kernel and the gradient are not modelled:
\* what WorkingSetSelection_ and TestShrink_ answer, and the Newton step of
\* an update, are inputs of the iteration.  alpha values are exact rationals
\* [n, d] in lowest terms with d > 0.
RECURSIVE GCD(_, _)
GCD(a, b) == IF b = 0 THEN a ELSE GCD(b, a % b)

Abs(x) == IF x < 0 THEN 0 - x ELSE x

Rat(n, d) == LET g == GCD(Abs(n), d) IN [n |-> n \div g, d |-> d \div g]

RatZero == Rat(0, 1)
RatAdd(a, b) == Rat(a.n * b.d + b.n * a.d, a.d * b.d)
RatSub(a, b) == Rat(a.n * b.d - b.n * a.d, a.d * b.d)
RatMulInt(a, k) == Rat(a.n * k, a.d)
RatDivInt(a, k) == Rat(a.n, a.d * k)
RatLess(a, b) == a.n * b.d < b.n * a.d

RECURSIVE RatSum(_, _)
RatSum(f, S) ==
  IF S = {} THEN RatZero
  ELSE LET x == CHOOSE x \in S : TRUE IN RatAdd(f[x], RatSum(f, S \ {x}))

MAX_NUM_ITER_HCY == 1000000
HCY_NUM_FOR_SHRINKING == 1000
INIT_ROOT_ALPHA_POS == Rat(1, 2)
INIT_ROOT_ALPHA_NEG == Rat(1, 2)

ID_LOWER_BOUNDED == 0 - 1
ID_UPPER_BOUNDED == 1
ID_FREE == 0

\* The box constraints handed to InitPara (param_[1], param_[2]).
Cp_ == Rat(1, 1)
Cn_ == Rat(1, 1)

\* InitPara: n_iter_ is capped by MAX_NUM_ITER_HCY.
InitPara(param_4) == IF param_4 < MAX_NUM_ITER_HCY THEN param_4 ELSE MAX_NUM_ITER_HCY

\* ------------------------------------------------------- the trees ------
\* A tree is [node id -> node]; the root is 1 and the children of n are 2n
\* and 2n + 1.  split is get_split_point_idx_old() (-1: no splitting
\* sample), begin and count are begin() and count().  A shape gives the kind
\* of every node: "inner" (splitting sample, two children), "term"
\* (splitting sample, no children), "leaf1" / "leaf2" (no splitting sample,
\* one or two points).  Every sample of a class is the splitting sample of
\* one node or lies in [begin, begin + count) of one leaf.
TreeShapes ==
  { (1 :> "term"),
    (1 :> "inner" @@ 2 :> "leaf1" @@ 3 :> "leaf1"),
    (1 :> "inner" @@ 2 :> "term" @@ 3 :> "leaf2"),
    (1 :> "inner" @@ 2 :> "leaf1" @@ 3 :> "term"),
    (1 :> "inner" @@ 2 :> "term" @@ 3 :> "term"),
    (1 :> "inner" @@ 2 :> "inner" @@ 3 :> "inner" @@ 4 :> "term" @@ 5 :> "leaf1"
       @@ 6 :> "inner" @@ 7 :> "leaf1" @@ 12 :> "leaf1" @@ 13 :> "leaf1") }

SamplesOfKind(kind) == IF kind = "leaf2" THEN 2 ELSE 1

RECURSIVE SamplesIn(_, _)
SamplesIn(shape, S) ==
  IF S = {} THEN 0
  ELSE LET n == CHOOSE n \in S : TRUE
       IN SamplesOfKind(shape[n]) + SamplesIn(shape, S \ {n})

ShapeSize(shape) == SamplesIn(shape, DOMAIN shape)

RECURSIVE Subtree(_, _)
Subtree(shape, n) ==
  IF n \notin DOMAIN shape THEN {}
  ELSE {n} \cup Subtree(shape, 2 * n) \cup Subtree(shape, 2 * n + 1)

\* The samples of a node start after those of the nodes with smaller ids,
\* rotated by rot.
FirstSample(shape, n, rot) ==
  LET m == ShapeSize(shape)
      base == SamplesIn(shape, {k \in DOMAIN shape : k < n})
  IN (base + rot) % m

MakeTree(shape, rot) ==
  [n \in DOMAIN shape |->
     LET first == FirstSample(shape, n, rot)
         splits == shape[n] \in {"inner", "term"}
     IN [split |-> IF splits THEN first ELSE 0 - 1,
         is_leaf |-> shape[n] # "inner",
         begin |-> IF splits THEN 0 - 1 ELSE first,
         count |-> SamplesIn(shape, Subtree(shape, n))]]

TreeInputs ==
  {MakeTree(shape, rot) : shape \in TreeShapes, rot \in 0..MaxRot}

\* Only trees whose leaves do not wrap around the end of the class.
ValidTree(tree) ==
  \A n \in DOMAIN tree :
    tree[n].split = 0 - 1 => tree[n].begin + tree[n].count <= tree[1].count

left(tree, n) == 2 * n
right(tree, n) == 2 * n + 1

\* ------------------------------------------------- the permuted arrays ---
\* The arrays SwapValues keeps aligned, with the two counters, as one value.
Arrays ==
  [active_set_ |-> active_set_, alpha_ |-> alpha_, alpha_status_ |-> alpha_status_,
   y_ |-> y_, n_used_alpha_ |-> n_used_alpha_, n_active_ |-> n_active_]

Swap2(f, i, j) == [f EXCEPT ![i] = f[j], ![j] = f[i]]

\* HCY::SwapValues (grad_ and grad_bar_ are not modelled).
SwapValues(o, idx_1, idx_2) ==
  [o EXCEPT !.active_set_ = Swap2(@, idx_1, idx_2),
            !.alpha_ = Swap2(@, idx_1, idx_2),
            !.alpha_status_ = Swap2(@, idx_1, idx_2),
            !.y_ = Swap2(@, idx_1, idx_2)]

GetC_(o, i) == IF o.y_[i] > 0 THEN Cp_ ELSE Cn_

UpdateAlphaStatus_(o, i) ==
  [o EXCEPT !.alpha_status_[i] =
     IF ~RatLess(o.alpha_[i], GetC_(o, i)) THEN ID_UPPER_BOUNDED
     ELSE IF ~RatLess(RatZero, o.alpha_[i]) THEN ID_LOWER_BOUNDED
     ELSE ID_FREE]

RECURSIVE UpdateAlphaStatusUpTo(_, _)
UpdateAlphaStatusUpTo(o, n) ==
  IF n = 0 THEN o ELSE UpdateAlphaStatus_(UpdateAlphaStatusUpTo(o, n - 1), n - 1)

IsUpperBounded(o, i) == o.alpha_status_[i] = ID_UPPER_BOUNDED
IsLowerBounded(o, i) == o.alpha_status_[i] = ID_LOWER_BOUNDED

\* LearnersInit_ for SVM_C and the learner-independent part of Train: the
\* first n_pos columns of the data matrix are the positive class.
LearnersInit_(n_pos, n_neg) ==
  LET n == n_pos + n_neg
      o == [active_set_ |-> [i \in 0..(n - 1) |-> i],
            alpha_ |-> [i \in 0..(n - 1) |-> RatZero],
            alpha_status_ |-> [i \in 0..(n - 1) |-> ID_FREE],
            y_ |-> [i \in 0..(n - 1) |-> IF i < n_pos THEN 1 ELSE 0 - 1],
            n_used_alpha_ |-> 0, n_active_ |-> 0]
  IN UpdateAlphaStatusUpTo(o, n)

\* Train, from the assignment of the initial alphas to the first call of
\* TreeDescentRecursion_.
TrainInit(n_pos, n_neg, t_pos, t_neg) ==
  LET o0 == LearnersInit_(n_pos, n_neg)
      o1 == [o0 EXCEPT !.alpha_[0] = INIT_ROOT_ALPHA_POS,
                       !.alpha_[1] = INIT_ROOT_ALPHA_NEG]
      o2 == SwapValues(o1, 0, t_pos[1].split)
      o3 == SwapValues(o2, 1, t_neg[1].split + n_pos)
  IN [o3 EXCEPT !.n_used_alpha_ = 2, !.n_active_ = 2]

\* The arguments of the first call: TreeDescentRecursion_(.., 2, 0, 0, 0, 0, 1, 1).
FirstArgs ==
  [n_samples_for_opt |-> 2,
   n_splitted_node_pos |-> 0, n_splitted_node_neg |-> 0,
   n_leaf_node_pos |-> 0, n_leaf_node_neg |-> 0,
   n_not_splitted_node_pos |-> 1, n_not_splitted_node_neg |-> 1]

NoHcyHistory == [level |-> 0, visited_pos |-> <<>>, visited_neg |-> <<>>]

InitHCY ==
  /\ KdIdle /\ NbIdle /\ MogIdle
  /\ tree_pos_ \in {t \in TreeInputs : ValidTree(t)}
  /\ tree_neg_ \in {t \in TreeInputs : ValidTree(t)}
  /\ n_data_pos_ = tree_pos_[1].count
  /\ n_data_neg_ = tree_neg_[1].count
  /\ n_data_pos_ + n_data_neg_ <= MaxData
  /\ \E param_4 \in 1..MaxIter : n_iter_ = InitPara(param_4)
  /\ active_set_ = <<>>
  /\ alpha_ = <<>>
  /\ alpha_status_ = <<>>
  /\ y_ = <<>>
  /\ n_used_alpha_ = 0
  /\ n_active_ = 0
  /\ ct_iter_ = 0
  /\ ct_shrinking_ = 0
  /\ unshrinked_ = FALSE
  /\ b_end_of_recursion_ = FALSE
  /\ stop_condition = 0
  /\ node_pool_pos = <<>>
  /\ node_pool_neg = <<>>
  /\ args = <<>>
  /\ new_args = <<>>
  /\ new_from_old = <<>>
  /\ prop = <<>>
  /\ hpc = "Train"
  /\ hcyhist = NoHcyHistory

\* HCY::Train up to the first call of TreeDescentRecursion_.
Train ==
  /\ hpc = "Train"
  /\ LET o == TrainInit(n_data_pos_, n_data_neg_, tree_pos_, tree_neg_)
     IN /\ active_set_' = o.active_set_
        /\ alpha_' = o.alpha_
        /\ alpha_status_' = o.alpha_status_
        /\ y_' = o.y_
        /\ n_used_alpha_' = o.n_used_alpha_
        /\ n_active_' = o.n_active_
  /\ node_pool_pos' = <<1>>
  /\ node_pool_neg' = <<1>>
  /\ b_end_of_recursion_' = FALSE
  /\ args' = FirstArgs
  /\ hpc' = "TreeDescentRecursion_"
  /\ UNCHANGED <<tree_pos_, tree_neg_, n_data_pos_, n_data_neg_, n_iter_, ct_iter_,
                 ct_shrinking_, unshrinked_, stop_condition, new_args, new_from_old,
                 prop, hcyhist, kdvars, nbvars, mogvars>>

\* ------------------------------------------------------ one level: SMO ---
\* TreeDescentRecursion_ from its entry to the start of the while loop.
LevelEntry ==
  /\ hpc = "TreeDescentRecursion_"
  /\ LET o0 == [Arrays EXCEPT !.n_used_alpha_ = args.n_samples_for_opt,
                              !.n_active_ = args.n_samples_for_opt]
         o == UpdateAlphaStatusUpTo(o0, o0.n_used_alpha_)
     IN /\ n_used_alpha_' = o.n_used_alpha_
        /\ n_active_' = o.n_active_
        /\ alpha_status_' = o.alpha_status_
        /\ ct_shrinking_' = Min2(o.n_used_alpha_, HCY_NUM_FOR_SHRINKING) + 1
  /\ unshrinked_' = FALSE
  /\ ct_iter_' = 0
  /\ stop_condition' = 0
  /\ hpc' = "smo"
  /\ UNCHANGED <<tree_pos_, tree_neg_, n_data_pos_, n_data_neg_, n_iter_, active_set_,
                 alpha_, y_, b_end_of_recursion_, node_pool_pos, node_pool_neg, args,
                 new_args, new_from_old, prop, hcyhist, kdvars, nbvars, mogvars>>

\* TestShrink_(t, y_grad_max, y_grad_min): a free alpha is never shrunk; for
\* a bounded one the gradient decides, and shrinkable is the set of samples
\* whose gradient passes the test.
TestShrink_(o, t, shrinkable) ==
  /\ IsUpperBounded(o, t) \/ IsLowerBounded(o, t)
  /\ o.active_set_[t] \in shrinkable

\* Shrinking_, inner while loop: look from the end of the active set for an
\* element to keep and swap it into position t.
RECURSIVE ShrinkFromEnd(_, _, _)
ShrinkFromEnd(o, t, shrinkable) ==
  IF o.n_active_ > t
  THEN IF ~TestShrink_(o, o.n_active_, shrinkable)
       THEN SwapValues(o, t, o.n_active_)
       ELSE ShrinkFromEnd([o EXCEPT !.n_active_ = @ - 1], t, shrinkable)
  ELSE o

\* Shrinking_, the loop over t that puts the inactive alphas behind the
\* active set.
RECURSIVE ShrinkLoop(_, _, _)
ShrinkLoop(o, t, shrinkable) ==
  IF t < o.n_active_
  THEN IF TestShrink_(o, t, shrinkable)
       THEN ShrinkLoop(ShrinkFromEnd([o EXCEPT !.n_active_ = @ - 1], t, shrinkable),
                       t + 1, shrinkable)
       ELSE ShrinkLoop(o, t + 1, shrinkable)
  ELSE o

\* Shrinking_, unshrinking: inner while loop.
RECURSIVE UnshrinkFromFront(_, _, _)
UnshrinkFromFront(o, t, shrinkable) ==
  IF o.n_active_ < t
  THEN IF TestShrink_(o, o.n_active_, shrinkable)
       THEN SwapValues(o, t, o.n_active_)
       ELSE UnshrinkFromFront([o EXCEPT !.n_active_ = @ + 1], t, shrinkable)
  ELSE o

\* Shrinking_, unshrinking: the loop over t from the end of the used alphas.
RECURSIVE UnshrinkLoop(_, _, _)
UnshrinkLoop(o, t, shrinkable) ==
  IF t > o.n_active_
  THEN IF ~TestShrink_(o, t, shrinkable)
       THEN LET o1 == UnshrinkFromFront(o, t, shrinkable)
            IN UnshrinkLoop([o1 EXCEPT !.n_active_ = @ + 1], t - 1, shrinkable)
       ELSE UnshrinkLoop(o, t - 1, shrinkable)
  ELSE o

\* Shrinking_: near says that y_grad_max - y_grad_min is within
\* SMO_UNSHRINKING_FACTOR * accuracy_.  The result is the arrays and the new
\* value of unshrinked_.
Shrinking_(o, unshrinked, shrinkable, near) ==
  LET o1 == ShrinkLoop(o, 0, shrinkable)
  IN IF unshrinked = FALSE /\ near
     THEN [o |-> UnshrinkLoop(o1, o1.n_used_alpha_ - 1, shrinkable), unshrinked |-> TRUE]
     ELSE [o |-> o1, unshrinked |-> unshrinked]

\* WorkingSetSelection_: the candidates for i (I_up) and for j (I_down)
\* among the active positions.
I_up(o) ==
  {t \in 0..(o.n_active_ - 1) :
     IF o.y_[t] = 1 THEN ~IsUpperBounded(o, t) ELSE ~IsLowerBounded(o, t)}
I_down(o) ==
  {t \in 0..(o.n_active_ - 1) :
     IF o.y_[t] = 1 THEN ~IsLowerBounded(o, t) ELSE ~IsUpperBounded(o, t)}

\* The pairs WorkingSetSelection_ can hand out when it answers false; the
\* data are such that the pair lies in the first MaxPos + 1 positions.
WorkingSets(o) ==
  {w \in I_up(o) \X I_down(o) : w[1] # w[2] /\ w[1] <= MaxPos /\ w[2] <= MaxPos}

\* The Newton steps of an update: first_order_diff / second_order_diff.
NewtonSteps == {Rat(1, 4), Rat(1, 1)}

\* UpdateGradientAlphaBias_: the step along the constraint and the clipping
\* to the box, then the two UpdateAlphaStatus_ calls.
UpdateGradientAlphaBias_(o, i, j, newton_step) ==
  LET a_i == o.alpha_[i]
      a_j == o.alpha_[j]
      y_i == o.y_[i]
      y_j == o.y_[j]
      C_i == GetC_(o, i)
      C_j == GetC_(o, j)
      p0 == [i |-> RatAdd(a_i, RatMulInt(newton_step, y_i)),
             j |-> RatSub(a_j, RatMulInt(newton_step, y_j))]
      alpha_old_diff == RatSub(a_i, a_j)
      alpha_old_sum == RatAdd(a_i, a_j)
      d1 == IF RatLess(RatZero, alpha_old_diff)
            THEN IF RatLess(p0.j, RatZero)
                 THEN [i |-> alpha_old_diff, j |-> RatZero] ELSE p0
            ELSE IF RatLess(p0.i, RatZero)
                 THEN [i |-> RatZero, j |-> RatSub(RatZero, alpha_old_diff)] ELSE p0
      d2 == IF RatLess(RatSub(C_i, C_j), alpha_old_diff)
            THEN IF RatLess(C_i, d1.i)
                 THEN [i |-> C_i, j |-> RatSub(C_i, alpha_old_diff)] ELSE d1
            ELSE IF RatLess(C_j, d1.j)
                 THEN [i |-> RatAdd(C_j, alpha_old_diff), j |-> C_j] ELSE d1
      s1 == IF RatLess(C_i, alpha_old_sum)
            THEN IF RatLess(C_i, p0.i)
                 THEN [i |-> C_i, j |-> RatSub(alpha_old_sum, C_i)] ELSE p0
            ELSE IF RatLess(p0.j, RatZero)
                 THEN [i |-> alpha_old_sum, j |-> RatZero] ELSE p0
      s2 == IF RatLess(C_j, alpha_old_sum)
            THEN IF RatLess(C_j, s1.j)
                 THEN [i |-> RatSub(alpha_old_sum, C_j), j |-> C_j] ELSE s1
            ELSE IF RatLess(s1.i, RatZero)
                 THEN [i |-> RatZero, j |-> alpha_old_sum] ELSE s1
      p == IF y_i # y_j THEN d2 ELSE s2
      o1 == [o EXCEPT !.alpha_[i] = p.i, !.alpha_[j] = p.j]
  IN UpdateAlphaStatus_(UpdateAlphaStatus_(o1, i), j)

ArraysBecome(o) ==
  /\ active_set_' = o.active_set_
  /\ alpha_' = o.alpha_
  /\ alpha_status_' = o.alpha_status_
  /\ y_' = o.y_
  /\ n_used_alpha_' = o.n_used_alpha_
  /\ n_active_' = o.n_active_

\* The samples TestShrink_ can accept: the used ones with a bounded alpha.
BoundedSamples ==
  {active_set_[t] : t \in {u \in 0..(n_used_alpha_ - 1) :
                             IsUpperBounded(Arrays, u) \/ IsLowerBounded(Arrays, u)}}

\* One pass of the while loop of TreeDescentRecursion_: the shrinking every
\* ct_shrinking_ passes, the working set selection, then stop, reconstruct
\* and look again, or update.  optimal and optimal_again are the answers of
\* the two WorkingSetSelection_ calls; ReconstructGradient_ returns at once
\* when nothing is shrunk, and then the second answer is the first.  The
\* passes are followed until ct_iter_ has passed n_iter_.
SmoIteration ==
  /\ hpc = "smo"
  /\ ct_iter_ <= n_iter_
  /\ \E shrinkable \in SUBSET BoundedSamples, near \in BOOLEAN,
        optimal \in BOOLEAN, optimal_again \in BOOLEAN :
       LET shrink == ct_shrinking_ - 1 = 0
           sh == IF shrink THEN Shrinking_(Arrays, unshrinked_, shrinkable, near)
                 ELSE [o |-> Arrays, unshrinked |-> unshrinked_]
           counted == IF shrink THEN Min2(n_used_alpha_, HCY_NUM_FOR_SHRINKING)
                      ELSE ct_shrinking_ - 1
           o == sh.o
       IN /\ ~shrink => shrinkable = {} /\ ~near
          /\ ct_iter_' = ct_iter_ + 1
          /\ unshrinked_' = sh.unshrinked
          /\ IF optimal
             THEN /\ o.n_active_ = o.n_used_alpha_ => optimal_again
                  /\ ArraysBecome([o EXCEPT !.n_active_ = o.n_used_alpha_])
                  /\ IF optimal_again
                     THEN stop_condition' = 1 /\ ct_shrinking_' = counted
                     ELSE stop_condition' = 0 /\ ct_shrinking_' = 1
             ELSE /\ ~optimal_again
                  /\ WorkingSets(o) # {}
                  /\ ct_shrinking_' = counted
                  /\ IF ct_iter_ + 1 >= n_iter_
                     THEN stop_condition' = 2 /\ ArraysBecome(o)
                     ELSE /\ stop_condition' = 0
                          /\ \E w \in WorkingSets(o), newton_step \in NewtonSteps :
                               ArraysBecome(UpdateGradientAlphaBias_(o, w[1], w[2], newton_step))
  /\ hpc' = IF stop_condition' \in {1, 2} THEN "propagate" ELSE "smo"
  /\ UNCHANGED <<tree_pos_, tree_neg_, n_data_pos_, n_data_neg_, n_iter_,
                 b_end_of_recursion_, node_pool_pos, node_pool_neg, args, new_args,
                 new_from_old, prop, hcyhist, kdvars, nbvars, mogvars>>

\* ------------------------------------------------------ propagation -----
\* What SplitNodePropagate_ works on: the arrays, one node pool, the
\* counters it receives by reference and b_end_of_recursion_.
NewArgsOf(a) ==
  [new_n_samples_for_opt |-> a.n_samples_for_opt,
   new_n_splitted_node_pos |-> a.n_splitted_node_pos,
   new_n_splitted_node_neg |-> a.n_splitted_node_neg,
   new_n_leaf_node_pos |-> a.n_leaf_node_pos,
   new_n_leaf_node_neg |-> a.n_leaf_node_neg,
   new_n_not_splitted_node_pos |-> 0,
   new_n_not_splitted_node_neg |-> 0]

\* The loop that fills new_from_old from active_set_.
NewFromOld(active_set) ==
  [old \in DOMAIN active_set |-> CHOOSE i \in DOMAIN active_set : active_set[i] = old]

\* From the end of the while loop to the first SplitNodePropagate_ call, or
\* to the return at the last level.
BeginPropagate ==
  /\ hpc = "propagate"
  /\ new_from_old' = NewFromOld(active_set_)
  /\ IF b_end_of_recursion_
     THEN /\ hpc' = "done"
          /\ UNCHANGED <<b_end_of_recursion_, new_args, prop>>
     ELSE /\ hpc' = "SplitNodePropagate_"
          /\ b_end_of_recursion_' = TRUE
          /\ new_args' = NewArgsOf(args)
          /\ prop' = [pool |-> "pos", k |-> args.n_splitted_node_pos]
  /\ UNCHANGED <<tree_pos_, tree_neg_, n_data_pos_, n_data_neg_, n_iter_, active_set_,
                 alpha_, alpha_status_, y_, n_used_alpha_, n_active_, ct_iter_,
                 ct_shrinking_, unshrinked_, stop_condition, node_pool_pos,
                 node_pool_neg, args, hcyhist, kdvars, nbvars, mogvars>>

\* "update alpha; update active_set etc.; n_used_alpha_ ++; n_active_ ++" for
\* the sample with old index old_idx_tmp.
Activate(st, old_idx_tmp, alpha_tmp) ==
  LET new_idx_tmp == new_from_old[old_idx_tmp]
      o1 == [st.o EXCEPT !.alpha_[new_idx_tmp] = alpha_tmp]
      o2 == SwapValues(o1, o1.n_active_, new_idx_tmp)
  IN [st EXCEPT !.o = [o2 EXCEPT !.n_used_alpha_ = @ + 1, !.n_active_ = @ + 1]]

\* The loop over the points of a leaf child, from point t on.
RECURSIVE ActivateLeaf(_, _, _, _)
ActivateLeaf(st, leaf, t, alpha_tmp) ==
  IF t < leaf.count
  THEN ActivateLeaf(Activate(st, leaf.begin + t, alpha_tmp), leaf, t + 1, alpha_tmp)
  ELSE st

PushBackDropsNode(st, n) == st
PushBack(st, n) == [st EXCEPT !.node_pool = Append(@, n)]

\* "divide alpha into shares and propagate", the node itself: the share
\* replaces the alpha of the node's splitting sample.
ShareOf(st, node, shares) == RatDivInt(st.o.alpha_[new_from_old[node.split]], shares)
KeepShare(st, node, alpha_tmp) ==
  [st EXCEPT !.o.alpha_[new_from_old[node.split]] = alpha_tmp]

\* The body of the loop of SplitNodePropagate_ for pool position k.
PropagateBody(tree, st0, k) ==
  LET n == st0.node_pool[k + 1]
      node == tree[n]
      st == [st0 EXCEPT !.new_n_splitted_node = @ + 1]
  IN IF node.is_leaf THEN st
     ELSE
     LET left_n == left(tree, n)
         right_n == right(tree, n)
         left_node == tree[left_n]
         right_node == tree[right_n]
     IN IF left_node.split # 0 - 1
        THEN LET a == [PushBack(st, left_n)
                         EXCEPT !.b_end_of_recursion_ = FALSE,
                                !.new_n_not_splitted_node = @ + 1,
                                !.new_n_samples_for_opt = @ + 1]
             IN IF right_node.split # 0 - 1
                THEN LET b == [PushBack(a, right_n)
                                 EXCEPT !.new_n_not_splitted_node = @ + 1,
                                        !.new_n_samples_for_opt = @ + 1]
                         alpha_tmp == ShareOf(b, node, 3)
                         c == KeepShare(b, node, alpha_tmp)
                         d == Activate(c, left_node.split, alpha_tmp)
                     IN Activate(d, right_node.split, alpha_tmp)
                ELSE LET n_samples_leaf == right_node.count
                         alpha_tmp == ShareOf(a, node, 2 + n_samples_leaf)
                         c == KeepShare(a, node, alpha_tmp)
                         d == Activate(c, left_node.split, alpha_tmp)
                         e == [PushBack(d, right_n)
                                 EXCEPT !.new_n_leaf_node = @ + 1,
                                        !.new_n_samples_for_opt = @ + n_samples_leaf]
                     IN ActivateLeaf(e, right_node, 0, alpha_tmp)
        ELSE IF right_node.split # 0 - 1
        THEN LET a == [PushBack(st, right_n)
                         EXCEPT !.b_end_of_recursion_ = FALSE,
                                !.new_n_not_splitted_node = @ + 1,
                                !.new_n_samples_for_opt = @ + 1]
                 n_samples_leaf == left_node.count
                 alpha_tmp == ShareOf(a, node, 2 + n_samples_leaf)
                 c == KeepShare(a, node, alpha_tmp)
                 d == Activate(c, right_node.split, alpha_tmp)
                 e == [PushBack(d, left_n)
                         EXCEPT !.new_n_leaf_node = @ + 1,
                                !.new_n_samples_for_opt = @ + n_samples_leaf]
             IN ActivateLeaf(e, left_node, 0, alpha_tmp)
        ELSE IF left_node.is_leaf /\ right_node.is_leaf
        THEN LET n_samples_left_leaf == left_node.count
                 n_samples_right_leaf == right_node.count
                 a == [PushBack(PushBack(st, left_n), right_n)
                         EXCEPT !.new_n_samples_for_opt =
                                   @ + n_samples_left_leaf + n_samples_right_leaf]
                 alpha_tmp == ShareOf(a, node, 1 + n_samples_left_leaf + n_samples_right_leaf)
                 c == KeepShare(a, node, alpha_tmp)
                 d == ActivateLeaf([c EXCEPT !.new_n_leaf_node = @ + 1],
                                   left_node, 0, alpha_tmp)
             IN ActivateLeaf([d EXCEPT !.new_n_leaf_node = @ + 1],
                             right_node, 0, alpha_tmp)
        ELSE st

\* The pool SplitNodePropagate_ is running on, and the bounds of its loop.
PoolTree == IF prop.pool = "pos" THEN tree_pos_ ELSE tree_neg_
PoolNodes == IF prop.pool = "pos" THEN node_pool_pos ELSE node_pool_neg
PoolFirst ==
  IF prop.pool = "pos" THEN args.n_splitted_node_pos ELSE args.n_splitted_node_neg
PoolEnd ==
  IF prop.pool = "pos"
  THEN args.n_splitted_node_pos + args.n_not_splitted_node_pos
  ELSE args.n_splitted_node_neg + args.n_not_splitted_node_neg

PoolState ==
  [o |-> Arrays,
   node_pool |-> PoolNodes,
   new_n_samples_for_opt |-> new_args.new_n_samples_for_opt,
   new_n_splitted_node |->
     IF prop.pool = "pos" THEN new_args.new_n_splitted_node_pos
     ELSE new_args.new_n_splitted_node_neg,
   new_n_leaf_node |->
     IF prop.pool = "pos" THEN new_args.new_n_leaf_node_pos
     ELSE new_args.new_n_leaf_node_neg,
   new_n_not_splitted_node |->
     IF prop.pool = "pos" THEN new_args.new_n_not_splitted_node_pos
     ELSE new_args.new_n_not_splitted_node_neg,
   b_end_of_recursion_ |-> b_end_of_recursion_]

\* One iteration of the loop of SplitNodePropagate_ over the pool positions
\* [n_splitted_node, n_splitted_node + n_not_splitted_node).
PropagateNode ==
  /\ hpc = "SplitNodePropagate_"
  /\ prop.k < PoolEnd
  /\ LET st == PropagateBody(PoolTree, PoolState, prop.k)
     IN /\ ArraysBecome(st.o)
        /\ b_end_of_recursion_' = st.b_end_of_recursion_
        /\ IF prop.pool = "pos"
           THEN /\ node_pool_pos' = st.node_pool
                /\ UNCHANGED node_pool_neg
                /\ new_args' =
                     [new_args EXCEPT
                        !.new_n_samples_for_opt = st.new_n_samples_for_opt,
                        !.new_n_splitted_node_pos = st.new_n_splitted_node,
                        !.new_n_leaf_node_pos = st.new_n_leaf_node,
                        !.new_n_not_splitted_node_pos = st.new_n_not_splitted_node]
                /\ hcyhist' = [hcyhist EXCEPT
                                 !.visited_pos = Append(@, PoolNodes[prop.k + 1])]
           ELSE /\ node_pool_neg' = st.node_pool
                /\ UNCHANGED node_pool_pos
                /\ new_args' =
                     [new_args EXCEPT
                        !.new_n_samples_for_opt = st.new_n_samples_for_opt,
                        !.new_n_splitted_node_neg = st.new_n_splitted_node,
                        !.new_n_leaf_node_neg = st.new_n_leaf_node,
                        !.new_n_not_splitted_node_neg = st.new_n_not_splitted_node]
                /\ hcyhist' = [hcyhist EXCEPT
                                 !.visited_neg = Append(@, PoolNodes[prop.k + 1])]
  /\ prop' = [prop EXCEPT !.k = @ + 1]
  /\ UNCHANGED <<tree_pos_, tree_neg_, n_data_pos_, n_data_neg_, n_iter_, ct_iter_,
                 ct_shrinking_, unshrinked_, stop_condition, args, new_from_old, hpc,
                 kdvars, nbvars, mogvars>>

\* The call for the positive tree has returned: the call for the negative
\* tree starts.
NextPool ==
  /\ hpc = "SplitNodePropagate_"
  /\ prop.pool = "pos"
  /\ prop.k >= PoolEnd
  /\ prop' = [pool |-> "neg", k |-> args.n_splitted_node_neg]
  /\ UNCHANGED <<tree_pos_, tree_neg_, n_data_pos_, n_data_neg_, n_iter_, active_set_,
                 alpha_, alpha_status_, y_, n_used_alpha_, n_active_, ct_iter_,
                 ct_shrinking_, unshrinked_, b_end_of_recursion_, stop_condition,
                 node_pool_pos, node_pool_neg, args, new_args, new_from_old, hpc,
                 hcyhist, kdvars, nbvars, mogvars>>

\* Both calls have returned: "recursion for the next level".
Recurse ==
  /\ hpc = "SplitNodePropagate_"
  /\ prop.pool = "neg"
  /\ prop.k >= PoolEnd
  /\ args' = [n_samples_for_opt |-> new_args.new_n_samples_for_opt,
              n_splitted_node_pos |-> new_args.new_n_splitted_node_pos,
              n_splitted_node_neg |-> new_args.new_n_splitted_node_neg,
              n_leaf_node_pos |-> new_args.new_n_leaf_node_pos,
              n_leaf_node_neg |-> new_args.new_n_leaf_node_neg,
              n_not_splitted_node_pos |-> new_args.new_n_not_splitted_node_pos,
              n_not_splitted_node_neg |-> new_args.new_n_not_splitted_node_neg]
  /\ hpc' = "TreeDescentRecursion_"
  /\ hcyhist' = [hcyhist EXCEPT !.level = @ + 1]
  /\ UNCHANGED <<tree_pos_, tree_neg_, n_data_pos_, n_data_neg_, n_iter_, active_set_,
                 alpha_, alpha_status_, y_, n_used_alpha_, n_active_, ct_iter_,
                 ct_shrinking_, unshrinked_, b_end_of_recursion_, stop_condition,
                 node_pool_pos, node_pool_neg, new_args, new_from_old, prop,
                 kdvars, nbvars, mogvars>>

NextHCY ==
  \/ Train
  \/ LevelEntry
  \/ SmoIteration
  \/ BeginPropagate
  \/ PropagateNode
  \/ NextPool
  \/ Recurse

SpecHCY == InitHCY /\ [][NextHCY]_vars

\* ------------------------------------------------------- HCY claims -----
\* C25: SMO iteration bound.  At every level the while loop of
\* TreeDescentRecursion_ ends with stop_condition 1 (optimality) or 2
\* (ct_iter_ has reached n_iter_), and it never makes more than n_iter_
\* passes: ct_iter_ <= n_iter_ <= MAX_NUM_ITER_HCY throughout.
C25_IterationBound ==
  hpc \in {"smo", "propagate"} =>
    /\ n_iter_ <= MAX_NUM_ITER_HCY
    /\ ct_iter_ <= n_iter_
    /\ hpc = "propagate" => stop_condition \in {1, 2}
    /\ hpc = "propagate" /\ stop_condition = 2 => ct_iter_ = n_iter_

\* C26: node-pool bookkeeping.  At the entry of every level of
\* TreeDescentRecursion_, for the positive and for the negative tree,
\* n_splitted_node + n_leaf_node + n_not_splitted_node is the size of the
\* tree's node pool (the two DEBUG_ASSERT_MSG checks hold).
C26_PoolBookkeeping ==
  hpc = "TreeDescentRecursion_" =>
    /\ args.n_splitted_node_pos + args.n_leaf_node_pos + args.n_not_splitted_node_pos
         = Len(node_pool_pos)
    /\ args.n_splitted_node_neg + args.n_leaf_node_neg + args.n_not_splitted_node_neg
         = Len(node_pool_neg)

\* A level entered with split, leaf and not-yet-split nodes in one pool and
\* a pool that has stopped growing (all of its nodes split) beside it.
C26_Witness ==
  /\ hpc = "TreeDescentRecursion_"
  /\ hcyhist.level >= 2
  /\ args.n_splitted_node_pos > 1
  /\ args.n_leaf_node_pos > 0
  /\ args.n_not_splitted_node_pos > 0
  /\ args.n_not_splitted_node_neg = 0
  /\ args.n_splitted_node_neg > 0

SeqRange(q) == {q[i] : i \in DOMAIN q}
NoRepeats(q) == \A i, j \in DOMAIN q : q[i] = q[j] => i = j

\* The nodes of a tree that have a splitting sample: the ones the pool
\* counts as not split when it receives them.
SplitNodes(tree) == {n \in DOMAIN tree : tree[n].split # 0 - 1}

\* C27: every not-yet-split node is propagated.  The pool positions visited
\* by SplitNodePropagate_ hold nodes counted as not split, never a node
\* counted as leaf; no node is visited at two levels and, when the recursion
\* ends, every node with a splitting sample has been visited; and at the end
\* every training sample is in use: n_used_alpha_ = n_data_.
C27_EveryNodePropagated ==
  /\ SeqRange(hcyhist.visited_pos) \subseteq SplitNodes(tree_pos_)
  /\ SeqRange(hcyhist.visited_neg) \subseteq SplitNodes(tree_neg_)
  /\ NoRepeats(hcyhist.visited_pos) /\ NoRepeats(hcyhist.visited_neg)
  /\ hpc = "done" =>
       /\ SeqRange(hcyhist.visited_pos) = SplitNodes(tree_pos_)
       /\ SeqRange(hcyhist.visited_neg) = SplitNodes(tree_neg_)
       /\ n_used_alpha_ = n_data_pos_ + n_data_neg_

NoNodeTwice == NoRepeats(hcyhist.visited_pos) /\ NoRepeats(hcyhist.visited_neg)

\* C28: the initial alphas sit on the root split samples.  Before the first
\* call of TreeDescentRecursion_, positions 0 and 1 of the permuted arrays
\* hold the splitting samples of the positive and of the negative root, with
\* labels +1 and -1 and alphas INIT_ROOT_ALPHA_POS and INIT_ROOT_ALPHA_NEG,
\* and every other sample has alpha 0.
C28_InitialAlphas ==
  hpc = "TreeDescentRecursion_" /\ hcyhist.level = 0 =>
    /\ active_set_[0] = tree_pos_[1].split
    /\ active_set_[1] = tree_neg_[1].split + n_data_pos_
    /\ y_[0] = 1 /\ y_[1] = 0 - 1
    /\ alpha_[0] = INIT_ROOT_ALPHA_POS
    /\ alpha_[1] = INIT_ROOT_ALPHA_NEG
    /\ \A i \in DOMAIN alpha_ : i >= 2 => alpha_[i] = RatZero

\* The part of C28 about the samples and their labels alone.
RootSamplesInFront ==
  hpc = "TreeDescentRecursion_" /\ hcyhist.level = 0 =>
    /\ active_set_[0] = tree_pos_[1].split
    /\ active_set_[1] = tree_neg_[1].split + n_data_pos_
    /\ y_[0] = 1 /\ y_[1] = 0 - 1

\* The sample of the data set behind an index of the pool's tree: the
\* negative class follows the n_data_pos_ positive samples.
DataIndex(idx) == IF prop.pool = "pos" THEN idx ELSE idx + n_data_pos_

\* The alpha a sample holds, wherever it stands in the permuted arrays.
AlphaOf(active_set, alpha, sample) ==
  alpha[CHOOSE i \in DOMAIN active_set : active_set[i] = sample]

\* The samples the children of node n bring in: the child's splitting
\* sample, or all points of a leaf child.
SamplesOfChild(tree, c) ==
  IF tree[c].split # 0 - 1 THEN {tree[c].split}
  ELSE {tree[c].begin + t : t \in 0..(tree[c].count - 1)}
ChildSamples(tree, n) ==
  SamplesOfChild(tree, left(tree, n)) \cup SamplesOfChild(tree, right(tree, n))

\* sum over all samples of y_i * alpha_i.
SignedSum(y, alpha) ==
  RatSum([i \in DOMAIN alpha |-> RatMulInt(alpha[i], y[i])], DOMAIN alpha)

\* C29: alpha propagation conserves mass.  For every node whose children
\* SplitNodePropagate_ brings in, the alpha of the node's splitting sample
\* before the step is the sum, after the step, of the alphas of that sample
\* and of the samples of its children, all of them holding the same share;
\* and the sum over all samples of y_i * alpha_i is not changed by the step.
C29_MassConserved ==
  [][PropagateNode =>
       LET n == PoolNodes[prop.k + 1]
           tree == PoolTree
           own == DataIndex(tree[n].split)
           brought == {DataIndex(i) : i \in ChildSamples(tree, n)}
           after == [s \in {own} \cup brought |-> AlphaOf(active_set_', alpha_', s)]
       IN /\ ~tree[n].is_leaf =>
               /\ AlphaOf(active_set_, alpha_, own) = RatSum(after, {own} \cup brought)
               /\ \A s \in brought : after[s] = after[own]
          /\ SignedSum(y_', alpha_') = SignedSum(y_, alpha_)]_vars

\* ------------------------------------- MoGL2E: the single gradient vector ---
\* RegularizationTerm_(g_reg) and GoodnessOfFitTerm_(data, g_fit) end by
\* copying g_omega, the g_mu[k] and the g_sigma[k] into one vector.  The
\* values are not modelled: tmp_g holds, per index, how often it was written.

\* arma::vec tmp_g_reg((gaussians * (dimension + 1) * (dimension * 2) / 2) - 1)
\* in size_t arithmetic; the same expression sizes tmp_g_fit.  With K >= 1
\* and D >= 1 the product is at least 2, so the subtraction does not wrap.
AllocatedSize(K, D) == (((K * (D + 1)) * (D * 2)) \div 2) - 1

\* g_omega.n_elem: "a vector of size K - 1" (weightsGradients and d_omega_
\* have K - 1 rows).
OmegaSize(K) == K - 1

\* Sizes of g_mu[k] and g_sigma[k].
MuSize(D) == D
SigmaSize(D) == (D * (D + 1)) \div 2

\* The indices of the three write statements.
OmegaIndex(k) == k
MuIndex(j, D, k, i) == j + (k * D) + i
SigmaIndex(j, K, D, k, i) == j + (K * D) + k * SigmaSize(D) + i

\* How often the assembly runs in one call: in RegularizationTerm_ it stands
\* inside the loop "for (size_t k = 0; k < gaussians; k++)" that computes
\* g_mu, in GoodnessOfFitTerm_ it stands after the loop.
Passes(term, K) == IF term = "reg" THEN K ELSE 1

Terms == {"reg", "fit"}

InitMoG ==
  /\ KdIdle /\ NbIdle /\ HcyIdle
  /\ gaussians \in 1..MaxK
  /\ dimension \in 1..MaxD
  /\ tmp_g = <<>>
  /\ \E term \in Terms :
       gpc = <<[term |-> term, pass |-> 0, phase |-> "alloc", j |-> 0,
                k |-> 0, i |-> 0, outside |-> {}]>>

At == gpc[1]

\* tmp_g[idx] = ...: inside the vector the entry is written; outside, the
\* store goes to memory that is not the vector's (operator[] of arma::vec
\* does no bounds check), and the run either goes on or is ended by the fault.
StoreOutcomes(idx) ==
  IF idx < Len(tmp_g)
  THEN {[vec |-> [tmp_g EXCEPT ![idx + 1] = @ + 1], outside |-> At.outside,
         fault |-> FALSE]}
  ELSE {[vec |-> tmp_g, outside |-> At.outside \cup {idx}, fault |-> f] :
          f \in BOOLEAN}

\* arma::vec tmp_g(..); size_t j = 0;
Allocate ==
  /\ gpc # <<>> /\ At.phase = "alloc"
  /\ tmp_g' = [x \in 1..AllocatedSize(gaussians, dimension) |-> 0]
  /\ gpc' = <<[At EXCEPT !.phase = "omega", !.j = 0, !.k = 0, !.i = 0]>>
  /\ UNCHANGED <<gaussians, dimension, kdvars, nbvars, hcyvars>>

\* for (k = 0; k < g_omega.n_elem; k++) tmp_g[k] = g_omega[k];
\* j = g_omega.n_elem;
WriteOmega ==
  /\ gpc # <<>> /\ At.phase = "omega"
  /\ IF At.k < OmegaSize(gaussians)
     THEN \E out \in StoreOutcomes(OmegaIndex(At.k)) :
            /\ tmp_g' = out.vec
            /\ gpc' = <<[At EXCEPT !.k = @ + 1, !.outside = out.outside,
                                   !.phase = IF out.fault THEN "fault" ELSE @]>>
     ELSE /\ tmp_g' = tmp_g
          /\ gpc' = <<[At EXCEPT !.phase = "mu", !.j = OmegaSize(gaussians),
                                 !.k = 0, !.i = 0]>>
  /\ UNCHANGED <<gaussians, dimension, kdvars, nbvars, hcyvars>>

\* for (k = 0; k < gaussians; k++) {
\*   for (i = 0; i < dimension; i++) tmp_g[j + (k * dimension) + i] = ...
WriteMu ==
  /\ gpc # <<>> /\ At.phase = "mu"
  /\ IF At.k >= gaussians
     THEN /\ tmp_g' = tmp_g
          /\ gpc' = <<[At EXCEPT !.phase = "assign"]>>
     ELSE IF At.i < MuSize(dimension)
     THEN \E out \in StoreOutcomes(MuIndex(At.j, dimension, At.k, At.i)) :
            /\ tmp_g' = out.vec
            /\ gpc' = <<[At EXCEPT !.i = @ + 1, !.outside = out.outside,
                                   !.phase = IF out.fault THEN "fault" ELSE @]>>
     ELSE /\ tmp_g' = tmp_g
          /\ gpc' = <<[At EXCEPT !.phase = "sigma", !.i = 0]>>
  /\ UNCHANGED <<gaussians, dimension, kdvars, nbvars, hcyvars>>

\*   for (i = 0; i < (dimension * (dimension + 1) / 2); i++)
\*     tmp_g[j + gaussians * dimension + k * (dimension * (dimension + 1) / 2) + i] = ...
\* }
WriteSigma ==
  /\ gpc # <<>> /\ At.phase = "sigma"
  /\ IF At.i < SigmaSize(dimension)
     THEN \E out \in StoreOutcomes(SigmaIndex(At.j, gaussians, dimension, At.k, At.i)) :
            /\ tmp_g' = out.vec
            /\ gpc' = <<[At EXCEPT !.i = @ + 1, !.outside = out.outside,
                                   !.phase = IF out.fault THEN "fault" ELSE @]>>
     ELSE /\ tmp_g' = tmp_g
          /\ gpc' = <<[At EXCEPT !.phase = "mu", !.k = @ + 1, !.i = 0]>>
  /\ UNCHANGED <<gaussians, dimension, kdvars, nbvars, hcyvars>>

\* g_reg = tmp_g_reg / g_fit = tmp_g_fit, then the next pass of the
\* enclosing loop or the return.
AssignGradient ==
  /\ gpc # <<>> /\ At.phase = "assign"
  /\ tmp_g' = tmp_g
  /\ gpc' = <<[At EXCEPT !.pass = @ + 1,
                         !.phase = IF At.pass + 1 < Passes(At.term, gaussians)
                                   THEN "alloc" ELSE "returned"]>>
  /\ UNCHANGED <<gaussians, dimension, kdvars, nbvars, hcyvars>>

NextMoG == Allocate \/ WriteOmega \/ WriteMu \/ WriteSigma \/ AssignGradient

SpecMoG == InitMoG /\ [][NextMoG]_vars

\* The size named by the comment "single gradient vector of size
\* K*(D+1)*(D+2)/2 - 1": K - 1 weights, K*D means, K*D*(D+1)/2 covariances.
EntriesNeeded(K, D) == ((K * (D + 1) * (D + 2)) \div 2) - 1

\* C30: the gradient vector RegularizationTerm_(g_reg) and
\* GoodnessOfFitTerm_(data, g_fit) hand back has K*(D+1)*(D+2)/2 - 1 entries
\* for K gaussians of dimension D, and every index written while it is filled
\* lies inside the vector.
C30_GradientSize ==
  gpc # <<>> =>
    /\ At.phase # "alloc" =>
         Len(tmp_g) = EntriesNeeded(gaussians, dimension)
    /\ At.outside = {}
    /\ At.phase # "fault"

\* In dimension 2 the two expressions agree, and then every entry is written
\* exactly once by the time the vector is assigned.
DimensionTwoFilled ==
  (gpc # <<>> /\ dimension = 2) =>
    /\ At.phase # "alloc" => Len(tmp_g) = EntriesNeeded(gaussians, dimension)
    /\ At.outside = {}
    /\ At.phase \in {"assign", "returned"} =>
         \A x \in 1..Len(tmp_g) : tmp_g[x] = 1
====
